---- MODULE Spec2Model ----
(***************************************************************************)
(* ATACSeqAnalysis (src/toolkit/atacseq.py): consensus sites, peak support *)
(* and read coverage of an ATAC-seq analysis, as a state machine.          *)
(*                                                                         *)
(* The code targets Python 2 and pandas < 0.20 (DataFrame.sort, .ix, map() *)
(* used as a list), and the model follows the semantics of that build.     *)
(* An optional value (an attribute that may not be set, a file that may    *)
(* not exist) is a record with a presence flag.                            *)
(***************************************************************************)
EXTENDS Integers, Sequences, FiniteSets, TLC

\* ---------------------------------------------------------------- bounds
MaxPos == 3          \* coordinates are 0..MaxPos ; also the chromosome size
MaxPeaks == 2        \* intervals per peak file
Extension == 1       \* the flank added around a summit (extension argument)
MaxRepeats == 2      \* consecutive identical calls that are told apart

SampleNames == {"s1", "s2"}
Chroms == {"chr1", "chrM"}

\* byte order of the chromosome names, as sort -k1,1 compares them
ChromRank(c) == IF c = "chr1" THEN 1 ELSE IF c = "chr2" THEN 2 ELSE 3

\* ------------------------------------------------------------- intervals
Iv(c, s, e) == [chrom |-> c, start |-> s, end |-> e]

Intervals ==
    {Iv("chr1", s, e) : s \in 0..MaxPos, e \in 0..MaxPos} \cup
    {Iv("chrM", 0, 1)}

ValidIntervals == {i \in Intervals : i.start < i.end}

\* (chrom, start, end) order
IvLess(a, b) ==
    \/ ChromRank(a.chrom) < ChromRank(b.chrom)
    \/ /\ a.chrom = b.chrom
       /\ \/ a.start < b.start
          \/ a.start = b.start /\ a.end < b.end

IsSorted(ivs) ==
    \A i \in 1..(Len(ivs) - 1) : IvLess(ivs[i], ivs[i + 1]) \/ ivs[i] = ivs[i + 1]

\* two features share at least one base
Overlaps(a, b) == a.chrom = b.chrom /\ a.start < b.end /\ b.start < a.end

\* two features overlap or are book-ended
Touches(a, b) == a.chrom = b.chrom /\ a.start <= b.end /\ b.start <= a.end

Max(a, b) == IF a >= b THEN a ELSE b
Min(a, b) == IF a <= b THEN a ELSE b

\* BedTool.sort: insertion of each feature into an ordered list
RECURSIVE Insert(_, _)
Insert(iv, ivs) ==
    IF ivs = <<>> THEN <<iv>>
    ELSE IF IvLess(iv, Head(ivs)) THEN <<iv>> \o ivs
    ELSE <<Head(ivs)>> \o Insert(iv, Tail(ivs))

RECURSIVE Sort(_)
Sort(ivs) == IF ivs = <<>> THEN <<>> ELSE Insert(Head(ivs), Sort(Tail(ivs)))

\* a merge that joins overlapping features only and leaves book-ended ones
RECURSIVE MergeSweepOverlapOnly(_, _)
MergeSweepOverlapOnly(cur, rest) ==
    IF rest = <<>> THEN <<cur>>
    ELSE LET nxt == Head(rest) IN
         IF nxt.chrom = cur.chrom /\ nxt.start < cur.end
         THEN MergeSweepOverlapOnly(Iv(cur.chrom, cur.start, Max(cur.end, nxt.end)), Tail(rest))
         ELSE <<cur>> \o MergeSweepOverlapOnly(nxt, Tail(rest))

\* a merge that joins a feature with the one after it and starts again from
\* the feature after the pair
RECURSIVE MergeSweepNoCarry(_, _)
MergeSweepNoCarry(cur, rest) ==
    IF rest = <<>> THEN <<cur>>
    ELSE LET nxt == Head(rest) IN
         IF nxt.chrom = cur.chrom /\ nxt.start <= cur.end
         THEN <<Iv(cur.chrom, cur.start, Max(cur.end, nxt.end))>> \o
              (IF Tail(rest) = <<>> THEN <<>>
               ELSE MergeSweepNoCarry(Head(Tail(rest)), Tail(Tail(rest))))
         ELSE <<cur>> \o MergeSweepNoCarry(nxt, Tail(rest))

\* BedTool.merge, bedtools merge -d 0: one sweep over the features in file
\* order, a feature that starts at or before the end of the running block
\* (overlapping or book-ended) extends it.
RECURSIVE MergeSweep(_, _)
MergeSweep(cur, rest) ==
    IF rest = <<>> THEN <<cur>>
    ELSE LET nxt == Head(rest) IN
         IF nxt.chrom = cur.chrom /\ nxt.start <= cur.end
         THEN MergeSweep(Iv(cur.chrom, cur.start, Max(cur.end, nxt.end)), Tail(rest))
         ELSE <<cur>> \o MergeSweep(nxt, Tail(rest))

\* a merge that returns the features as they are
MergeNothing(ivs) == ivs

Merge(ivs) == IF ivs = <<>> THEN <<>> ELSE MergeSweep(Head(ivs), Tail(ivs))

\* a cat that merges the concatenation in the order it was given
CatUnsorted(a, b) == Merge(a \o b)

\* BedTool.cat(other), postmerge=True: concatenate, sort, merge
Cat(a, b) == Merge(Sort(a \o b))

\* BedTool.intersect(v=True, b=other): the features of a that no feature of b
\* overlaps
IntersectV(a, b) ==
    SelectSeq(a, LAMBDA x : \A j \in 1..Len(b) : ~Overlaps(x, b[j]))

\* BedTool.intersect(b, wa=True, c=True): for each feature of a, the number
\* of features of b that overlap it
OverlapCount(x, b) == Cardinality({j \in 1..Len(b) : Overlaps(x, b[j])})

\* BedTool.slop(b=extension, genome=...): widen on both sides, clipped to
\* the chromosome
Slop(ivs, ext) ==
    [i \in 1..Len(ivs) |->
        Iv(ivs[i].chrom, Max(0, ivs[i].start - ext), Min(MaxPos, ivs[i].end + ext))]

NotChrM(ivs) == SelectSeq(ivs, LAMBDA x : x.chrom # "chrM")

\* ---------------------------------------------------------------- state
VARIABLES
    peaks_fs,        \* sample name -> the file at sample.peaks
    bam_fs,          \* sample name -> the alignment file at sample.filtered
    blacklist,       \* data/external/wgEncodeDacMapabilityConsensusExcludable.bed
    self_samples,    \* self.samples, the Analysis's own sample names
    sites,           \* self.sites
    peak_set_file,   \* results/<name>_peak_set.bed
    support,         \* self.support
    support_files,   \* <name>_peaks.binary_overlap_support.csv, <name>_peaks.support.csv
    coverage,        \* self.coverage
    raw_coverage_file, \* results/<name>_peaks.raw_coverage.csv
    output_file,     \* the file at the output_file argument of measure_coverage
    call,            \* the last operation called, its arguments and outcome
    local_coverage,  \* the local `coverage` the last measure_coverage assembled
    returned,        \* the matrix the last measure_coverage returned
    mask,            \* the Series the last get_supported_peaks returned
    refs,            \* the reference files under data/external
    coverage_qnorm,  \* self.coverage_qnorm
    qnorm_file,      \* results/<name>_peaks.coverage_qnorm.csv
    nuc,             \* self.nuc
    coverage_gc_corrected, \* self.coverage_gc_corrected
    coverage_rpm,    \* self.coverage_rpm
    gene_annotation, \* self.gene_annotation
    region_annotation, \* self.region_annotation
    chrom_state_annotation, \* self.chrom_state_annotation
    coverage_annotated, \* self.coverage_annotated
    annotated_file,  \* results/<name>_peaks.coverage_qnorm.annotated.csv
    pool             \* the workers of the measure_coverage that is running

env == <<peaks_fs, bam_fs, blacklist, self_samples, refs>>
consensus_state == <<sites, peak_set_file>>
support_state == <<support, support_files>>
coverage_state == <<coverage, raw_coverage_file, output_file, pool>>
norm_state == <<coverage_qnorm, qnorm_file, nuc, coverage_gc_corrected, coverage_rpm>>
getter_state == <<gene_annotation, region_annotation, chrom_state_annotation>>
annotated_state == <<coverage_annotated, annotated_file>>
vars == <<peaks_fs, bam_fs, blacklist, self_samples, sites, peak_set_file,
          support, support_files, coverage, raw_coverage_file, output_file,
          call, local_coverage, returned, mask, refs,
          coverage_qnorm, qnorm_file, nuc, coverage_gc_corrected, coverage_rpm,
          gene_annotation, region_annotation, chrom_state_annotation,
          coverage_annotated, annotated_file, pool>>

\* an attribute that is not set, a file that does not exist
NoIvs == [has |-> FALSE, ivs |-> <<>>]
SomeIvs(ivs) == [has |-> TRUE, ivs |-> ivs]

StrictlySorted(ivs) == \A i \in 1..(Len(ivs) - 1) : IvLess(ivs[i], ivs[i + 1])

\* the contents a peak file can have: sorted BED features, at least one
PeakFiles ==
    {f \in UNION {[1..n -> ValidIntervals] : n \in 1..MaxPeaks} : StrictlySorted(f)}

\* a list of Sample objects, each sample at most once
SampleLists ==
    {l \in UNION {[1..n -> SampleNames] : n \in 0..Cardinality(SampleNames)} :
        \A i, j \in 1..Len(l) : i # j => l[i] # l[j]}

RegionTypes == {"summits", "peaks"}

\* a DataFrame: column names and rows; a row of the support table carries
\* the per-sample counts and support = num / den, a row of a coverage matrix
\* its index label (key) and the per-sample counts
NoTable == [has |-> FALSE, names |-> <<>>, rows |-> <<>>]
Table(names, rows) == [has |-> TRUE, names |-> names, rows |-> rows]

NoMask == [has |-> FALSE, vals |-> <<>>]

\* no measure_coverage is running and none has run
IdlePool ==
    [active |-> FALSE, samples |-> <<>>, present |-> <<>>, keys |-> <<>>,
     sites_kind |-> "None", sites_arg |-> <<>>, output_file |-> FALSE,
     results |-> <<>>, finished |-> <<>>]

\* the record of a call; nth counts the consecutive calls of the same
\* operation with the same arguments, up to MaxRepeats
Called(op, samples, region_type, sites_kind, sites_arg, out, outcome) ==
    [op |-> op, samples |-> samples, region_type |-> region_type,
     sites_kind |-> sites_kind, sites_arg |-> sites_arg,
     output_file |-> out, outcome |-> outcome,
     nth |-> IF /\ call.op = op /\ call.samples = samples
                /\ call.region_type = region_type /\ call.sites_kind = sites_kind
                /\ call.sites_arg = sites_arg /\ call.output_file = out
             THEN Min(call.nth + 1, MaxRepeats) ELSE 1]

NoCall ==
    [op |-> "none", samples |-> <<>>, region_type |-> "peaks",
     sites_kind |-> "None", sites_arg |-> <<>>,
     output_file |-> FALSE, outcome |-> "ok", nth |-> 0]

\* ------------------------------------------------- get_consensus_sites
\* the summits file written next to a peak file: one point per peak
SummitsOf(ivs) ==
    [i \in 1..Len(ivs) |-> Iv(ivs[i].chrom, ivs[i].start, ivs[i].start + 1)]

\* the BedTool a sample contributes; has = FALSE stands for the ValueError
\* pybedtools raises for a path that does not exist
LoadPeaks(name, region_type, extension) ==
    IF ~peaks_fs[name].has THEN NoIvs
    ELSE IF region_type = "summits"
         THEN SomeIvs(Slop(SummitsOf(peaks_fs[name].ivs), extension))
         ELSE SomeIvs(peaks_fs[name].ivs)

\* the loop over enumerate(samples); acc is the local `sites`: bound says
\* whether the name has been assigned, raised that sites.cat was reached
\* with the name unassigned
RECURSIVE ConsensusFold(_, _, _, _, _)
ConsensusFold(samples, i, region_type, extension, acc) ==
    IF i > Len(samples) \/ acc.raised THEN acc
    ELSE LET loaded == LoadPeaks(samples[i], region_type, extension) IN
         IF ~loaded.has
         THEN ConsensusFold(samples, i + 1, region_type, extension, acc)
         ELSE LET peaks == Merge(loaded.ivs) IN
              IF i = 1
              THEN ConsensusFold(samples, i + 1, region_type, extension,
                                 [bound |-> TRUE, raised |-> FALSE, ivs |-> peaks])
              ELSE IF ~acc.bound
                   THEN [bound |-> FALSE, raised |-> TRUE, ivs |-> <<>>]
                   ELSE ConsensusFold(samples, i + 1, region_type, extension,
                                      [bound |-> TRUE, raised |-> FALSE,
                                       ivs |-> Cat(acc.ivs, peaks)])

\* a local `sites` that starts as an empty interval set
UnboundAsEmpty == [bound |-> TRUE, raised |-> FALSE, ivs |-> <<>>]

\* the local `sites` before the loop: not assigned
Unbound == [bound |-> FALSE, raised |-> FALSE, ivs |-> <<>>]

\* the filters and the save: blacklist, chrM
FilterSites(ivs) == NotChrM(IntersectV(ivs, blacklist))

GetConsensusSites(samples, region_type, extension) ==
    LET fold == ConsensusFold(samples, 1, region_type, extension, Unbound) IN
    /\ IF fold.raised \/ ~fold.bound
       THEN /\ call' = Called("get_consensus_sites", samples, region_type,
                              "None", <<>>, FALSE, "UnboundLocalError")
            /\ UNCHANGED consensus_state
       ELSE /\ peak_set_file' = SomeIvs(FilterSites(Merge(fold.ivs)))
            /\ sites' = peak_set_file'
            /\ call' = Called("get_consensus_sites", samples, region_type,
                              "None", <<>>, FALSE, "ok")
    /\ UNCHANGED <<env, support_state, coverage_state, local_coverage, returned, mask,
                   norm_state, getter_state, annotated_state>>

\* ---------------------------------------------- calculate_peak_support
\* a consensus that always counts as set
ConsensusNeverUnset == FALSE

\* reading self.sites raises AttributeError until a consensus is set
ConsensusUnset == ~sites.has

\* the file whose features are counted for a sample: sample.peaks, or the
\* summits file next to it (taken as it is, not widened)
SupportPeaks(name, region_type) ==
    IF ~peaks_fs[name].has THEN NoIvs
    ELSE IF region_type = "summits"
         THEN SomeIvs(SummitsOf(peaks_fs[name].ivs))
         ELSE SomeIvs(peaks_fs[name].ivs)

\* counts that add up over the calls while the rows stay the same
SupportCountsAccumulating(samples, region_type) ==
    [r \in 1..Len(sites.ivs) |->
        [chrom |-> sites.ivs[r].chrom, start |-> sites.ivs[r].start,
         end |-> sites.ivs[r].end,
         counts |-> [k \in 1..Len(samples) |->
                        OverlapCount(sites.ivs[r],
                                     SupportPeaks(samples[k], region_type).ivs)
                        + (IF /\ support.has /\ Len(support.rows) = Len(sites.ivs)
                              /\ Len(support.names) = Len(samples)
                           THEN support.rows[r].counts[k] ELSE 0)]]]

\* the chain of intersect(peaks, wa=True, c=True): one count column per
\* sample appended to every feature of self.sites
SupportCounts(samples, region_type) ==
    [r \in 1..Len(sites.ivs) |->
        [chrom |-> sites.ivs[r].chrom, start |-> sites.ivs[r].start,
         end |-> sites.ivs[r].end,
         counts |-> [k \in 1..Len(samples) |->
                        OverlapCount(sites.ivs[r],
                                     SupportPeaks(samples[k], region_type).ivs)]]]

\* lambda x: i if i <= 1 else 1, on the cell at column position k (from 1)
\* of a row whose columns are chrom, start, end and the sample names; in
\* Python 2 a str compares greater than any int, so the chrom cell gives 1
ClampedCell(row, k) ==
    IF k = 1 THEN 1
    ELSE IF k = 2 THEN Min(row.start, 1)
    ELSE IF k = 3 THEN Min(row.end, 1)
    ELSE Min(row.counts[k - 3], 1)

RECURSIVE SumFirst(_, _)
SumFirst(row, n) == IF n = 0 THEN 0 ELSE SumFirst(row, n - 1) + ClampedCell(row, n)

\* support[range(len(samples))]: a list of integers on string column labels
\* selects by position (pandas < 0.20), the first len(samples) columns of
\* chrom, start, end, <sample names>; num / den is the quotient
SupportColumn(rows, nsamples) ==
    [r \in 1..Len(rows) |->
        [chrom |-> rows[r].chrom, start |-> rows[r].start, end |-> rows[r].end,
         counts |-> rows[r].counts,
         num |-> SumFirst(rows[r], nsamples), den |-> Len(self_samples)]]

SupportCall(samples, region_type, outcome) ==
    Called("calculate_peak_support", samples, region_type, "None", <<>>, FALSE, outcome)

CalculatePeakSupport(samples, region_type) ==
    /\ IF samples = <<>>
       THEN \* the local `support` is never assigned: lines 96-98
            /\ call' = SupportCall(samples, region_type, "UnboundLocalError")
            /\ UNCHANGED support_state
       ELSE IF ConsensusUnset
       THEN /\ call' = SupportCall(samples, region_type, "AttributeError")
            /\ UNCHANGED support_state
       ELSE IF \E k \in 1..Len(samples) : ~SupportPeaks(samples[k], region_type).has
       THEN \* bedtools cannot open the file
            /\ call' = SupportCall(samples, region_type, "BEDToolsError")
            /\ UNCHANGED support_state
       ELSE IF sites.ivs = <<>>
       THEN \* no table can be read from an empty result
            /\ call' = SupportCall(samples, region_type, "EmptyDataError")
            /\ UNCHANGED support_state
       ELSE LET binary == SupportCounts(samples, region_type)
                table == Table(samples, SupportColumn(binary, Len(samples)))
            IN /\ support' = table
               /\ support_files' = [binary |-> Table(samples, binary), support |-> table]
               /\ call' = SupportCall(samples, region_type, "ok")
    /\ UNCHANGED <<env, consensus_state, coverage_state, local_coverage, returned, mask,
                   norm_state, getter_state, annotated_state>>

\* -------------------------------------------------- get_supported_peaks
\* the position of a sample's column among the count columns
ColumnOf(names, n) == CHOOSE k \in 1..Len(names) : names[k] = n

RECURSIVE RowSum(_, _, _)
RowSum(row, names, cols) ==
    IF cols = <<>> THEN 0
    ELSE row.counts[ColumnOf(names, Head(cols))] + RowSum(row, names, Tail(cols))

\* a mask taken from the aggregate support column
MaskFromSupportColumn(table, samples) ==
    [r \in 1..Len(table.rows) |-> table.rows[r].num # 0]

\* self.support[[s.name for s in samples]].sum(1) != 0
MaskOf(table, samples) ==
    [r \in 1..Len(table.rows) |-> RowSum(table.rows[r], table.names, samples) # 0]

MaskCall(samples, outcome) ==
    Called("get_supported_peaks", samples, "peaks", "None", <<>>, FALSE, outcome)

GetSupportedPeaks(samples) ==
    /\ IF ~support.has
       THEN /\ call' = MaskCall(samples, "AttributeError")
            /\ mask' = NoMask
       ELSE IF \E k \in 1..Len(samples) :
                  \A c \in 1..Len(support.names) : support.names[c] # samples[k]
       THEN /\ call' = MaskCall(samples, "KeyError")
            /\ mask' = NoMask
       ELSE /\ call' = MaskCall(samples, "ok")
            /\ mask' = [has |-> TRUE, vals |-> MaskOf(support, samples)]
    /\ UNCHANGED <<env, consensus_state, support_state, coverage_state,
                   local_coverage, returned, norm_state, getter_state, annotated_state>>

\* ----------------------------------------------------- measure_coverage
Digits == <<"0", "1", "2", "3", "4", "5", "6", "7", "8", "9">>

\* str(n) of a non-negative integer, as a sequence of characters
RECURSIVE Str(_)
Str(n) == IF n < 10 THEN <<Digits[n + 1]>> ELSE Str(n \div 10) \o <<Digits[(n % 10) + 1]>>

\* int(s), of a sequence of digit characters
RECURSIVE ParseInt(_)
ParseInt(s) ==
    IF s = <<>> THEN 0
    ELSE ParseInt(SubSeq(s, 1, Len(s) - 1)) * 10
         + ((CHOOSE d \in 1..10 : Digits[d] = s[Len(s)]) - 1)

\* the characters of a chromosome name, and the name they spell
ChromChars(c) == IF c = "chr1" THEN <<"c", "h", "r", "1">> ELSE <<"c", "h", "r", "M">>
ChromNamed(s) == CHOOSE c \in Chroms : ChromChars(c) = s

\* str(i.chrom) + ":" + str(i.start) + "-" + str(i.stop)
FormatRegion(iv) == ChromChars(iv.chrom) \o <<":">> \o Str(iv.start) \o <<"-">> \o Str(iv.end)

\* s.split(sep): the pieces of s between the separators
RECURSIVE Split(_, _, _)
Split(s, sep, piece) ==
    IF s = <<>> THEN <<piece>>
    ELSE IF Head(s) = sep THEN <<piece>> \o Split(Tail(s), sep, <<>>)
    ELSE Split(Tail(s), sep, Append(piece, Head(s)))

\* x.split(":")[0], x.split(":")[1].split("-")[0], x.split(":")[1].split("-")[1]
ParseRegion(key) ==
    LET byColon == Split(key, ":", <<>>)
        byDash == Split(byColon[2], "-", <<>>)
    IN Iv(ChromNamed(byColon[1]), ParseInt(byDash[1]), ParseInt(byDash[2]))

\* count_reads_in_intervals, for one region key: the alignments of the
\* sample's file that overlap the region
CountReads(name, key) ==
    LET iv == ParseRegion(key) IN
    IF iv.chrom # "chr1" THEN 0
    ELSE Cardinality({p \in bam_fs[name].reads : iv.start <= p /\ p < iv.end})

\* missing = [...], samples = [s for s in samples if s not in missing]
WithAlignments(samples) == SelectSeq(samples, LAMBDA n : bam_fs[n].has)

\* the region keys taken for a BedTool: the loop runs over self.sites
BedToolKeys(sites_arg) == [r \in 1..Len(sites.ivs) |-> FormatRegion(sites.ivs[r])]

\* the region keys taken for a DataFrame or for a path
GivenKeys(sites_arg) == [r \in 1..Len(sites_arg) |-> FormatRegion(sites_arg[r])]

\* pd.DataFrame(<one Series per sample>, index=<names>).T with the chrom,
\* start and end columns added: the rows are the labels of the Series, so
\* without a sample there is no row
AssembleCoverage(present, keys) ==
    Table(present,
          IF present = <<>> THEN <<>>
          ELSE [r \in 1..Len(keys) |->
                   [key |-> keys[r],
                    counts |-> [k \in 1..Len(present) |-> CountReads(present[k], keys[r])],
                    chrom |-> ParseRegion(keys[r]).chrom,
                    start |-> ParseRegion(keys[r]).start,
                    end |-> ParseRegion(keys[r]).end]])

CoverageCall(samples, sites_kind, sites_arg, out, outcome) ==
    Called("measure_coverage", samples, "peaks", sites_kind, sites_arg, out, outcome)

MeasureCoverage(samples, sites_kind, sites_arg, out) ==
    LET present == WithAlignments(samples)
        \* `default` is assigned only under sites is None and output_file is None
        default_bound == sites_kind = "None" /\ ~out
        reads_self_sites == sites_kind \in {"None", "BedTool"}
        keys == IF reads_self_sites THEN BedToolKeys(sites_arg) ELSE GivenKeys(sites_arg)
        matrix == AssembleCoverage(present, keys)
    IN
    /\ IF reads_self_sites /\ ConsensusUnset
       THEN /\ call' = CoverageCall(samples, sites_kind, sites_arg, out, "AttributeError")
            /\ local_coverage' = NoTable
            /\ returned' = NoTable
            /\ UNCHANGED coverage_state
       ELSE IF ~default_bound
       THEN \* `if default:` reads a name that was never assigned
            /\ call' = CoverageCall(samples, sites_kind, sites_arg, out, "UnboundLocalError")
            /\ local_coverage' = matrix
            /\ returned' = NoTable
            /\ UNCHANGED coverage_state
       ELSE /\ call' = CoverageCall(samples, sites_kind, sites_arg, out, "ok")
            /\ local_coverage' = matrix
            /\ coverage' = matrix
            /\ raw_coverage_file' = matrix
            /\ returned' = matrix
            /\ UNCHANGED <<output_file, pool>>
    /\ UNCHANGED <<env, consensus_state, support_state, mask,
                   norm_state, getter_state, annotated_state>>

\* measure_coverage step by step. parmap.map(..., parallel=True) hands one
\* call of count_reads_in_intervals per sample to a pool of processes and
\* blocks until every call has returned; the caller runs nothing meanwhile.

\* the call reaches parmap.map: the samples without a file are dropped, the
\* region strings are made and one worker per remaining sample is started
MeasureCoverageDispatch(samples, sites_kind, sites_arg, out) ==
    LET present == WithAlignments(samples)
        reads_self_sites == sites_kind \in {"None", "BedTool"}
        keys == IF reads_self_sites THEN BedToolKeys(sites_arg) ELSE GivenKeys(sites_arg)
    IN
    /\ ~pool.active
    /\ IF reads_self_sites /\ ConsensusUnset
       THEN /\ call' = CoverageCall(samples, sites_kind, sites_arg, out, "AttributeError")
            /\ local_coverage' = NoTable
            /\ returned' = NoTable
            /\ UNCHANGED coverage_state
       ELSE /\ pool' = [active |-> TRUE, samples |-> samples, present |-> present,
                        keys |-> keys, sites_kind |-> sites_kind,
                        sites_arg |-> sites_arg, output_file |-> out,
                        results |-> [k \in 1..Len(present) |->
                                        [done |-> FALSE, counts |-> <<>>]],
                        finished |-> <<>>]
            /\ UNCHANGED <<coverage, raw_coverage_file, output_file, call,
                           local_coverage, returned>>
    /\ UNCHANGED <<env, consensus_state, support_state, mask,
                   norm_state, getter_state, annotated_state>>

\* the worker of the k-th sample returns its counts, one per region string
WorkerReturns(k) ==
    /\ pool.active
    /\ k \in 1..Len(pool.present)
    /\ ~pool.results[k].done
    /\ pool' = [pool EXCEPT
                   !.results[k] =
                       [done |-> TRUE,
                        counts |-> [r \in 1..Len(pool.keys) |->
                                       CountReads(pool.present[k], pool.keys[r])]],
                   !.finished = Append(pool.finished, k)]
    /\ UNCHANGED <<env, consensus_state, support_state, coverage, raw_coverage_file,
                   output_file, call, local_coverage, returned, mask,
                   norm_state, getter_state, annotated_state>>

\* a list of results in the order the workers returned
ResultsAsCompleted ==
    [k \in 1..Len(pool.finished) |-> pool.results[pool.finished[k]].counts]

\* the list parmap.map returns: the results in the order of the iterable
\* it was given, whatever order the workers returned in
MappedResults == [k \in 1..Len(pool.present) |-> pool.results[k].counts]

\* pd.DataFrame(<one Series per result>, index=<names>).T with the chrom,
\* start and end columns added
AssembleResults(present, keys, results) ==
    Table(present,
          IF present = <<>> THEN <<>>
          ELSE [r \in 1..Len(keys) |->
                   [key |-> keys[r],
                    counts |-> [k \in 1..Len(present) |-> results[k][r]],
                    chrom |-> ParseRegion(keys[r]).chrom,
                    start |-> ParseRegion(keys[r]).start,
                    end |-> ParseRegion(keys[r]).end]])

\* every worker has returned: parmap.map returns and the rest of the method
\* runs
MeasureCoverageJoin ==
    LET default_bound == pool.sites_kind = "None" /\ ~pool.output_file
        matrix == AssembleResults(pool.present, pool.keys, MappedResults)
    IN
    /\ pool.active
    /\ \A k \in 1..Len(pool.present) : pool.results[k].done
    /\ pool' = [pool EXCEPT !.active = FALSE]
    /\ IF ~default_bound
       THEN /\ call' = CoverageCall(pool.samples, pool.sites_kind, pool.sites_arg,
                                    pool.output_file, "UnboundLocalError")
            /\ local_coverage' = matrix
            /\ returned' = NoTable
            /\ UNCHANGED <<coverage, raw_coverage_file, output_file>>
       ELSE /\ call' = CoverageCall(pool.samples, pool.sites_kind, pool.sites_arg,
                                    pool.output_file, "ok")
            /\ local_coverage' = matrix
            /\ coverage' = matrix
            /\ raw_coverage_file' = matrix
            /\ returned' = matrix
            /\ UNCHANGED output_file
    /\ UNCHANGED <<env, consensus_state, support_state, mask,
                   norm_state, getter_state, annotated_state>>

\* --------------------------------------------------- set_consensus_sites
\* the bed_file argument is a path: results/<name>_peak_set.bed itself, or
\* a file elsewhere with the given lines
PeakSetPath == [canonical |-> TRUE, ivs |-> <<>>]
OtherBed(ivs) == [canonical |-> FALSE, ivs |-> ivs]

\* the file at the path, as it is when the call starts
BedFileAt(bed_file) ==
    IF bed_file.canonical THEN peak_set_file ELSE SomeIvs(bed_file.ivs)

SetSitesCall(bed_file, overwrite, outcome) ==
    Called("set_consensus_sites", <<>>, "peaks",
           IF bed_file.canonical THEN "peak_set_file" ELSE "str",
           bed_file.ivs, overwrite, outcome)

\* saveas opens the target for writing, which empties it, and then copies
\* the lines of the file the BedTool is bound to: a file saved onto itself
\* is left with no line
SavedAs(bed_file) ==
    IF bed_file.canonical THEN SomeIvs(<<>>) ELSE BedFileAt(bed_file)

\* a set_consensus_sites that drops the support table with the old consensus
SetConsensusSitesClearing(bed_file, overwrite) ==
    IF ~BedFileAt(bed_file).has
    THEN /\ call' = SetSitesCall(bed_file, overwrite, "ValueError")
         /\ returned' = NoTable
         /\ UNCHANGED <<env, consensus_state, support_state, coverage_state,
                        local_coverage, mask, norm_state, getter_state,
                        annotated_state>>
    ELSE /\ peak_set_file' = IF overwrite THEN SavedAs(bed_file) ELSE peak_set_file
         /\ sites' = IF bed_file.canonical THEN peak_set_file' ELSE BedFileAt(bed_file)
         /\ call' = SetSitesCall(bed_file, overwrite, "ok")
         /\ returned' = NoTable
         /\ support' = NoTable
         /\ UNCHANGED <<env, support_files, coverage_state, local_coverage, mask,
                        norm_state, getter_state, annotated_state>>

\* self.sites = BedTool(bed_file), which raises ValueError when there is no
\* file at the path and otherwise stays bound to the path; with overwrite
\* the set is saved as the peak-set file
SetConsensusSites(bed_file, overwrite) ==
    IF ~BedFileAt(bed_file).has
    THEN /\ call' = SetSitesCall(bed_file, overwrite, "ValueError")
         /\ returned' = NoTable
         /\ UNCHANGED <<env, consensus_state, support_state, coverage_state,
                        local_coverage, mask, norm_state, getter_state,
                        annotated_state>>
    ELSE /\ peak_set_file' = IF overwrite THEN SavedAs(bed_file) ELSE peak_set_file
         /\ sites' = IF bed_file.canonical THEN peak_set_file' ELSE BedFileAt(bed_file)
         /\ call' = SetSitesCall(bed_file, overwrite, "ok")
         /\ returned' = NoTable
         /\ UNCHANGED <<env, support_state, coverage_state, local_coverage, mask,
                        norm_state, getter_state, annotated_state>>

\* ---------------------------------------------------------- normalization
\* df[[s.name for s in samples]] raises KeyError unless every name is a column
HasColumns(table, samples) ==
    \A i \in 1..Len(samples) : \E k \in 1..Len(table.names) : table.names[k] = samples[i]

\* the values of one sample's column, down the rows
ColumnValues(table, n) ==
    [r \in 1..Len(table.rows) |-> table.rows[r].counts[ColumnOf(table.names, n)]]

\* the rank of row r in a column; equal values rank in row order
RankIn(vals, r) ==
    1 + Cardinality({j \in 1..Len(vals) : vals[j] < vals[r]})
      + Cardinality({j \in 1..(r - 1) : vals[j] = vals[r]})

\* the value at rank k of a column
AtRank(vals, k) == vals[CHOOSE r \in 1..Len(vals) : RankIn(vals, r) = k]

RECURSIVE RankTotal(_, _, _)
RankTotal(table, cols, k) ==
    IF cols = <<>> THEN 0
    ELSE AtRank(ColumnValues(table, Head(cols)), k) + RankTotal(table, Tail(cols), k)

\* normalize.quantiles: a value is replaced by the mean, over the columns,
\* of the values at its rank; num / den is that mean
NormalizeQuantilesR(table, samples) ==
    [r \in 1..Len(table.rows) |->
        [c \in 1..Len(samples) |->
            [num |-> RankTotal(table, samples, RankIn(ColumnValues(table, samples[c]), r)),
             den |-> Len(samples)]]]

\* the chrom, start and end cells that .join(self.coverage[['chrom', 'start',
\* 'end']]) puts on the row of a key; NaN where coverage has no such row
NoCoords == [chrom |-> "NaN", start |-> 0 - 1, end |-> 0 - 1]
CoordsOf(table, key) ==
    IF \E r \in 1..Len(table.rows) : table.rows[r].key = key
    THEN LET row == table.rows[CHOOSE r \in 1..Len(table.rows) : table.rows[r].key = key]
         IN [chrom |-> row.chrom, start |-> row.start, end |-> row.end]
    ELSE NoCoords

\* a quantile-normalized matrix over every column of the coverage matrix
QnormOfAllColumns(samples) ==
    LET values == NormalizeQuantilesR(coverage, coverage.names) IN
    Table(coverage.names,
          [r \in 1..Len(coverage.rows) |->
              [key |-> coverage.rows[r].key,
               counts |-> values[r],
               chrom |-> coverage.rows[r].chrom,
               start |-> coverage.rows[r].start,
               end |-> coverage.rows[r].end]])

\* pd.DataFrame(values, index=to_norm.index, columns=to_norm.columns)
\*     .join(self.coverage[['chrom', 'start', 'end']])
QnormOf(samples) ==
    LET values == NormalizeQuantilesR(coverage, samples) IN
    Table(samples,
          [r \in 1..Len(coverage.rows) |->
              [key |-> coverage.rows[r].key,
               counts |-> values[r],
               chrom |-> CoordsOf(coverage, coverage.rows[r].key).chrom,
               start |-> CoordsOf(coverage, coverage.rows[r].key).start,
               end |-> CoordsOf(coverage, coverage.rows[r].key).end]])

\* how normalize_coverage_quantiles ends on the current state
QuantilesOutcome(samples) ==
    IF ~coverage.has THEN "AttributeError"
    ELSE IF ~HasColumns(coverage, samples) THEN "KeyError"
    ELSE "ok"

QuantilesCall(samples, outcome) ==
    Called("normalize_coverage_quantiles", samples, "peaks", "None", <<>>, FALSE, outcome)

\* the method has no return statement
NormalizeCoverageQuantiles(samples) ==
    /\ call' = QuantilesCall(samples, QuantilesOutcome(samples))
    /\ returned' = NoTable
    /\ IF QuantilesOutcome(samples) = "ok"
       THEN /\ coverage_qnorm' = QnormOf(samples)
            /\ qnorm_file' = QnormOf(samples)
       ELSE UNCHANGED <<coverage_qnorm, qnorm_file>>
    /\ UNCHANGED <<env, consensus_state, support_state, coverage_state, local_coverage,
                   mask, nuc, coverage_gc_corrected, coverage_rpm,
                   getter_state, annotated_state>>

\* the positions of the reference sequence that hold a G or a C
GenomeGC == {p \in 0..MaxPos : p % 2 = 0}

\* sites.nucleotide_content(fi=...)[["score", "blockStarts"]]: the G+C
\* fraction (num / den) and the length of each site, labelled by region key
NucleotideContent(ivs) ==
    [i \in 1..Len(ivs) |->
        [key |-> FormatRegion(ivs[i]),
         found |-> TRUE,
         gc_content |-> [num |-> Cardinality({p \in GenomeGC : ivs[i].start <= p /\ p < ivs[i].end}),
                         den |-> ivs[i].end - ivs[i].start],
         length |-> ivs[i].end - ivs[i].start]]

\* nuc.ix[self.coverage.index]: one row per coverage key, in coverage order,
\* all NaN where the key is no site
NucRowOf(local_nuc, key) ==
    IF \E i \in 1..Len(local_nuc) : local_nuc[i].key = key
    THEN local_nuc[CHOOSE i \in 1..Len(local_nuc) : local_nuc[i].key = key]
    ELSE [key |-> key, found |-> FALSE, gc_content |-> [num |-> 0, den |-> 0], length |-> 0]

NucOf ==
    Table(<<"gc_content", "length">>,
          [r \in 1..Len(coverage.rows) |->
              NucRowOf(NucleotideContent(sites.ivs), coverage.rows[r].key)])

\* how get_peak_gccontent_length ends on the current state
GccontentOutcome ==
    IF ~sites.has THEN "AttributeError"
    ELSE IF ~coverage.has THEN "AttributeError"
    ELSE "ok"

GccontentCall(outcome) ==
    Called("get_peak_gccontent_length", <<>>, "peaks", "None", <<>>, FALSE, outcome)

GetPeakGccontentLength ==
    /\ call' = GccontentCall(GccontentOutcome)
    /\ returned' = NoTable
    /\ nuc' = IF GccontentOutcome = "ok" THEN NucOf ELSE nuc
    /\ UNCHANGED <<env, consensus_state, support_state, coverage_state, local_coverage,
                   mask, coverage_qnorm, qnorm_file, coverage_gc_corrected, coverage_rpm,
                   getter_state, annotated_state>>

\* the first test of normalize_gc_content, which decides whether
\* normalize_coverage_quantiles runs: not hasattr(self, "nuc")
QuantilesNeeded == ~nuc.has

\* the second test, which decides whether get_peak_gccontent_length runs
GccontentNeeded == ~nuc.has

\* cqn(cov, gc_content, lengths): y + offset, a frame with the index and the
\* columns of cov; a cell stands for the corrected value of its inputs
Cqn(to_norm, samples, covariates) ==
    [r \in 1..Len(to_norm.rows) |->
        [c \in 1..Len(samples) |->
            [cov |-> to_norm.rows[r].counts[ColumnOf(to_norm.names, samples[c])],
             gc_content |-> covariates.rows[r].gc_content,
             length |-> covariates.rows[r].length]]]

\* cqn(...).join(self.coverage[['chrom', 'start', 'end']])
GcCorrectedOf(to_norm, samples, covariates) ==
    LET values == Cqn(to_norm, samples, covariates) IN
    Table(samples,
          [r \in 1..Len(to_norm.rows) |->
              [key |-> to_norm.rows[r].key,
               counts |-> values[r],
               chrom |-> CoordsOf(coverage, to_norm.rows[r].key).chrom,
               start |-> CoordsOf(coverage, to_norm.rows[r].key).start,
               end |-> CoordsOf(coverage, to_norm.rows[r].key).end]])

GcCall(samples, outcome) ==
    Called("normalize_gc_content", samples, "peaks", "None", <<>>, FALSE, outcome)

NormalizeGcContent(samples) ==
    LET ran_quantiles == QuantilesNeeded
        ran_gccontent == GccontentNeeded
        qnorm1 == IF ran_quantiles THEN QnormOf(samples) ELSE coverage_qnorm
        nuc1 == IF ran_gccontent THEN NucOf ELSE nuc
        leave == /\ returned' = NoTable
                 /\ UNCHANGED <<env, consensus_state, support_state, coverage_state,
                                local_coverage, mask, coverage_rpm, getter_state,
                                annotated_state>>
    IN
    IF ran_quantiles /\ QuantilesOutcome(samples) # "ok"
    THEN /\ call' = GcCall(samples, QuantilesOutcome(samples))
         /\ UNCHANGED <<coverage_qnorm, qnorm_file, nuc, coverage_gc_corrected>>
         /\ leave
    ELSE IF ran_gccontent /\ GccontentOutcome # "ok"
    THEN \* the quantile-normalized matrix is already stored
         /\ call' = GcCall(samples, GccontentOutcome)
         /\ coverage_qnorm' = qnorm1
         /\ qnorm_file' = IF ran_quantiles THEN qnorm1 ELSE qnorm_file
         /\ UNCHANGED <<nuc, coverage_gc_corrected>>
         /\ leave
    ELSE /\ coverage_qnorm' = qnorm1
         /\ qnorm_file' = IF ran_quantiles THEN qnorm1 ELSE qnorm_file
         /\ nuc' = nuc1
         /\ leave
         /\ IF ~qnorm1.has
            THEN /\ call' = GcCall(samples, "AttributeError")
                 /\ UNCHANGED coverage_gc_corrected
            ELSE IF ~HasColumns(qnorm1, samples)
            THEN /\ call' = GcCall(samples, "KeyError")
                 /\ UNCHANGED coverage_gc_corrected
            ELSE IF \/ Len(nuc1.rows) # Len(qnorm1.rows)
                    \/ \E r \in 1..Len(nuc1.rows) : ~nuc1.rows[r].found
            THEN \* the covariates do not fit the matrix
                 /\ call' = GcCall(samples, "RRuntimeError")
                 /\ UNCHANGED coverage_gc_corrected
            ELSE IF ~coverage.has
            THEN /\ call' = GcCall(samples, "AttributeError")
                 /\ UNCHANGED coverage_gc_corrected
            ELSE /\ call' = GcCall(samples, "ok")
                 /\ coverage_gc_corrected' = GcCorrectedOf(qnorm1, samples, nuc1)

\* the scale of the total-count normalization
Million == 1000000

RECURSIVE ColumnSum(_, _)
ColumnSum(vals, n) == IF n = 0 THEN 0 ELSE ColumnSum(vals, n - 1) + vals[n]

\* the total-count strategy: each sample column divided by its column sum,
\* scaled by one million; num / den is the quotient
RpmOf ==
    Table(coverage.names,
          [r \in 1..Len(coverage.rows) |->
              [key |-> coverage.rows[r].key,
               counts |-> [c \in 1..Len(coverage.names) |->
                              [num |-> coverage.rows[r].counts[c] * Million,
                               den |-> ColumnSum(ColumnValues(coverage, coverage.names[c]),
                                                 Len(coverage.rows))]],
               chrom |-> coverage.rows[r].chrom,
               start |-> coverage.rows[r].start,
               end |-> coverage.rows[r].end]])

RpmCall(save, outcome) ==
    Called("normalize_coverage_rpm", <<>>, "peaks", "None", <<>>, save, outcome)

\* normalize_coverage_rpm(save): caches the matrix and returns it
NormalizeCoverageRpm(save) ==
    /\ IF ~coverage.has
       THEN /\ call' = RpmCall(save, "AttributeError")
            /\ returned' = NoTable
            /\ UNCHANGED coverage_rpm
       ELSE /\ call' = RpmCall(save, "ok")
            /\ coverage_rpm' = RpmOf
            /\ returned' = RpmOf
    /\ UNCHANGED <<env, consensus_state, support_state, coverage_state, local_coverage,
                   mask, coverage_qnorm, qnorm_file, nuc, coverage_gc_corrected,
                   getter_state, annotated_state>>

Methods == {"total", "quantile"}

\* the strategy a method name stands for
StrategyOf(method) ==
    IF method = "total" THEN "normalize_coverage_rpm" ELSE "normalize_coverage_quantiles"

NormalizeCall(method, samples, outcome) ==
    Called("normalize", samples, "peaks", method, <<>>, FALSE, outcome)

\* normalize(method): routes to the strategy of that name and returns the
\* object the strategy caches
Normalize(method, samples) ==
    IF StrategyOf(method) = "normalize_coverage_rpm"
    THEN /\ IF ~coverage.has
            THEN /\ call' = NormalizeCall(method, samples, "AttributeError")
                 /\ returned' = NoTable
                 /\ UNCHANGED coverage_rpm
            ELSE /\ call' = NormalizeCall(method, samples, "ok")
                 /\ coverage_rpm' = RpmOf
                 /\ returned' = RpmOf
         /\ UNCHANGED <<env, consensus_state, support_state, coverage_state,
                        local_coverage, mask, coverage_qnorm, qnorm_file, nuc,
                        coverage_gc_corrected, getter_state, annotated_state>>
    ELSE /\ call' = NormalizeCall(method, samples, QuantilesOutcome(samples))
         /\ IF QuantilesOutcome(samples) = "ok"
            THEN /\ coverage_qnorm' = QnormOf(samples)
                 /\ qnorm_file' = QnormOf(samples)
                 /\ returned' = QnormOf(samples)
            ELSE /\ returned' = NoTable
                 /\ UNCHANGED <<coverage_qnorm, qnorm_file>>
         /\ UNCHANGED <<env, consensus_state, support_state, coverage_state,
                        local_coverage, mask, nuc, coverage_gc_corrected, coverage_rpm,
                        getter_state, annotated_state>>

\* ----------------------------------------------------- annotation tables
\* a feature of a reference file with a name column and a strand column
Feature(c, s, e, name, strand) ==
    [chrom |-> c, start |-> s, end |-> e, name |-> name, strand |-> strand]

\* the bases two features share
OverlapBp(a, b) ==
    IF a.chrom = b.chrom THEN Max(0, Min(a.end, b.end) - Max(a.start, b.start)) ELSE 0

\* f=0.2, in percent
MinOverlapPercent == 20

\* intersect(..., f=0.2): b covers at least the fraction f of a
FractionHit(a, b) ==
    /\ OverlapBp(a, b) > 0
    /\ OverlapBp(a, b) * 100 >= MinOverlapPercent * (a.end - a.start)

\* groupby(['chrom', 'start', 'end']): the distinct keys, in sorted order
RECURSIVE Distinct(_)
Distinct(ivs) ==
    IF ivs = <<>> THEN <<>>
    ELSE LET rest == Distinct(SubSeq(ivs, 1, Len(ivs) - 1))
             last == ivs[Len(ivs)]
         IN IF \E i \in 1..Len(rest) : rest[i] = last THEN rest ELSE Append(rest, last)

GroupKeys(ivs) == Sort(Distinct(ivs))

\* the elements of a set in the order iteration over the set gives them,
\* which is fixed by the elements
RECURSIVE SetOrder(_)
SetOrder(S) ==
    IF S = {} THEN <<>>
    ELSE LET x == CHOOSE y \in S : TRUE IN <<x>> \o SetOrder(S \ {x})

\* ",".join(set([str(i) for i in x])): the distinct values, each once
JoinSet(values) == SetOrder({values[i] : i \in 1..Len(values)})

\* ",".join(x): every value, in row order
JoinAll(values) == values

\* the -d column of closest: 0 on overlap, else the gap plus one
Distance(a, b) ==
    IF OverlapBp(a, b) > 0 THEN 0
    ELSE IF b.start >= a.end THEN b.start - a.end + 1
    ELSE a.start - b.end + 1

\* str(i) of a distance
StrDistance(d) == IF d < 0 THEN <<"-">> \o Str(0 - d) ELSE Str(d)

\* sites.closest(tss, d=True) for one site: every feature of the site's
\* chromosome at the least distance; a row of "." and -1 when there is none
ClosestHits(a, tss) ==
    LET same == SelectSeq(tss, LAMBDA b : b.chrom = a.chrom)
        nearest == SelectSeq(same, LAMBDA b :
                       \A i \in 1..Len(same) : Distance(a, b) <= Distance(a, same[i]))
    IN IF same = <<>>
       THEN <<[gene_name |-> ".", strand |-> ".", distance |-> StrDistance(0 - 1)]>>
       ELSE [i \in 1..Len(nearest) |->
                [gene_name |-> nearest[i].name, strand |-> nearest[i].strand,
                 distance |-> StrDistance(Distance(a, nearest[i]))]]

\* gene_annotation.groupby(['chrom', 'start', 'end']).aggregate(...)
GeneAnnotationOf(ivs, tss) ==
    LET keys == GroupKeys(ivs) IN
    Table(<<"gene_name", "strand", "distance">>,
          [k \in 1..Len(keys) |->
              LET hits == ClosestHits(keys[k], tss) IN
              [chrom |-> keys[k].chrom, start |-> keys[k].start, end |-> keys[k].end,
               gene_name |-> JoinSet([i \in 1..Len(hits) |-> hits[i].gene_name]),
               strand |-> JoinSet([i \in 1..Len(hits) |-> hits[i].strand]),
               distance |-> JoinSet([i \in 1..Len(hits) |-> hits[i].distance])]])

GetterCall(op, outcome) == Called(op, <<>>, "peaks", "None", <<>>, FALSE, outcome)

GetPeakGeneAnnotation ==
    /\ IF ~sites.has
       THEN /\ call' = GetterCall("get_peak_gene_annotation", "AttributeError")
            /\ UNCHANGED gene_annotation
       ELSE IF sites.ivs = <<>>
       THEN \* no table can be read from an empty result
            /\ call' = GetterCall("get_peak_gene_annotation", "EmptyDataError")
            /\ UNCHANGED gene_annotation
       ELSE /\ call' = GetterCall("get_peak_gene_annotation", "ok")
            /\ gene_annotation' = GeneAnnotationOf(sites.ivs, refs.tss)
    /\ returned' = NoTable
    /\ UNCHANGED <<env, consensus_state, support_state, coverage_state, local_coverage,
                   mask, norm_state, region_annotation, chrom_state_annotation,
                   annotated_state>>

\* the reference files of get_peak_genomic_location, in the order of the
\* loop, by region_name
RegionNames == <<"intergenic", "tss2kb", "utr5", "exons", "introns", "utr3">>

RegionFile(region_name) ==
    IF region_name = "intergenic" THEN refs.genes
    ELSE IF region_name = "tss2kb" THEN refs.tss2kb
    ELSE IF region_name = "utr5" THEN refs.utr5
    ELSE IF region_name = "exons" THEN refs.exons
    ELSE IF region_name = "introns" THEN refs.introns
    ELSE refs.utr3

\* the sites labelled intergenic when the label goes to the sites that
\* match none of the other categories
IntergenicIfUnmatched(ivs) ==
    SelectSeq(ivs, LAMBDA a :
        \A n \in 2..Len(RegionNames) :
            \A j \in 1..Len(RegionFile(RegionNames[n])) :
                ~FractionHit(a, RegionFile(RegionNames[n])[j]))

\* self.sites.intersect(r, wa=True, f=0.2, v=True) on the genes file: the
\* sites that no gene covers by the fraction
IntergenicSites(ivs) ==
    SelectSeq(ivs, LAMBDA a : \A j \in 1..Len(refs.genes) : ~FractionHit(a, refs.genes[j]))

\* self.sites.intersect(r, wa=True, u=True, f=0.2): each site once if some
\* feature of the file covers it by the fraction
SitesIn(ivs, region_name) ==
    SelectSeq(ivs, LAMBDA a :
        \E j \in 1..Len(RegionFile(region_name)) : FractionHit(a, RegionFile(region_name)[j]))

\* df of one pass of the loop
RegionHits(ivs, region_name) ==
    IF region_name = "intergenic" THEN IntergenicSites(ivs) ELSE SitesIn(ivs, region_name)

\* the labels on the rows of one site after concat, sort and
\* drop_duplicates, in the order of the loop
LabelsOf(ivs, a) ==
    SelectSeq(RegionNames, LAMBDA name :
        \E i \in 1..Len(RegionHits(ivs, name)) : RegionHits(ivs, name)[i] = a)

RegionAnnotationOf(ivs) ==
    LET keys == GroupKeys(SelectSeq(ivs, LAMBDA a : LabelsOf(ivs, a) # <<>>)) IN
    Table(<<"genomic_region">>,
          [k \in 1..Len(keys) |->
              [chrom |-> keys[k].chrom, start |-> keys[k].start, end |-> keys[k].end,
               genomic_region |-> JoinSet(LabelsOf(ivs, keys[k]))]])

GetPeakGenomicLocation ==
    /\ IF ~sites.has
       THEN /\ call' = GetterCall("get_peak_genomic_location", "AttributeError")
            /\ UNCHANGED region_annotation
       ELSE IF \E n \in 1..Len(RegionNames) : RegionHits(sites.ivs, RegionNames[n]) = <<>>
       THEN \* no table can be read from an empty result
            /\ call' = GetterCall("get_peak_genomic_location", "EmptyDataError")
            /\ UNCHANGED region_annotation
       ELSE /\ call' = GetterCall("get_peak_genomic_location", "ok")
            /\ region_annotation' = RegionAnnotationOf(sites.ivs)
    /\ returned' = NoTable
    /\ UNCHANGED <<env, consensus_state, support_state, coverage_state, local_coverage,
                   mask, norm_state, gene_annotation, chrom_state_annotation,
                   annotated_state>>

\* self.sites.intersect(states, wa=True, wb=True, f=0.2) for one site: the
\* state of every segment that covers the site by the fraction, in file order
StateHits(a, states) ==
    LET hits == SelectSeq(states, LAMBDA b : FractionHit(a, b))
    IN [i \in 1..Len(hits) |-> hits[i].name]

\* the hit rows of every occurrence of a key, one after the other
RECURSIVE StateRows(_, _, _)
StateRows(ivs, key, states) ==
    IF ivs = <<>> THEN <<>>
    ELSE (IF Head(ivs) = key THEN StateHits(key, states) ELSE <<>>)
         \o StateRows(Tail(ivs), key, states)

\* chrom_state_annotation.groupby(['chrom', 'start', 'end']).aggregate(...)
ChromStateAnnotationOf(ivs, states) ==
    LET keys == GroupKeys(SelectSeq(ivs, LAMBDA a : StateHits(a, states) # <<>>)) IN
    Table(<<"chromatin_state">>,
          [k \in 1..Len(keys) |->
              [chrom |-> keys[k].chrom, start |-> keys[k].start, end |-> keys[k].end,
               chromatin_state |-> JoinAll(StateRows(ivs, keys[k], states))]])

GetPeakChromatinState ==
    /\ IF ~sites.has
       THEN /\ call' = GetterCall("get_peak_chromatin_state", "AttributeError")
            /\ UNCHANGED chrom_state_annotation
       ELSE IF \A i \in 1..Len(sites.ivs) : StateHits(sites.ivs[i], refs.states) = <<>>
       THEN \* no table can be read from an empty result
            /\ call' = GetterCall("get_peak_chromatin_state", "EmptyDataError")
            /\ UNCHANGED chrom_state_annotation
       ELSE /\ call' = GetterCall("get_peak_chromatin_state", "ok")
            /\ chrom_state_annotation' = ChromStateAnnotationOf(sites.ivs, refs.states)
    /\ returned' = NoTable
    /\ UNCHANGED <<env, consensus_state, support_state, coverage_state, local_coverage,
                   mask, norm_state, gene_annotation, region_annotation,
                   annotated_state>>

\* ------------------------------------------------------------- numbers
\* the float cells of a matrix: a ratio num / den in lowest terms, NaN, inf,
\* or the square root of a ratio
Abs(x) == IF x < 0 THEN 0 - x ELSE x

RECURSIVE Gcd(_, _)
Gcd(a, b) == IF b = 0 THEN a ELSE Gcd(b, a % b)

NaN == [kind |-> "nan", num |-> 0, den |-> 1]
Infinity == [kind |-> "inf", num |-> 1, den |-> 1]

Ratio(n, d) ==
    LET g == Gcd(Abs(n), Abs(d))
        sign == IF d < 0 THEN 0 - 1 ELSE 1
    IN [kind |-> "num", num |-> sign * (n \div g), den |-> sign * (d \div g)]

Add(a, b) ==
    IF a.kind # "num" \/ b.kind # "num" THEN NaN
    ELSE Ratio(a.num * b.den + b.num * a.den, a.den * b.den)

Sub(a, b) ==
    IF a.kind # "num" \/ b.kind # "num" THEN NaN
    ELSE Ratio(a.num * b.den - b.num * a.den, a.den * b.den)

Mul(a, b) ==
    IF a.kind # "num" \/ b.kind # "num" THEN NaN
    ELSE Ratio(a.num * b.num, a.den * b.den)

\* float division: 0 / 0 is NaN, x / 0 is inf
Div(a, b) ==
    IF a.kind # "num" \/ b.kind # "num" THEN NaN
    ELSE IF b.num = 0 THEN (IF a.num = 0 THEN NaN ELSE Infinity)
    ELSE Ratio(a.num * b.den, a.den * b.num)

Less(a, b) == a.num * b.den < b.num * a.den

RECURSIVE SumOf(_)
SumOf(cells) == IF cells = <<>> THEN Ratio(0, 1) ELSE Add(Head(cells), SumOf(Tail(cells)))

MaxOf(cells) == cells[CHOOSE c \in 1..Len(cells) : \A d \in 1..Len(cells) : ~Less(cells[c], cells[d])]
MinOf(cells) == cells[CHOOSE c \in 1..Len(cells) : \A d \in 1..Len(cells) : ~Less(cells[d], cells[c])]

\* np.sqrt of a ratio, kept as the root of the ratio
SqrtOf(a) == IF a.kind = "num" THEN [a EXCEPT !.kind = "sqrt"] ELSE a

\* the root of a ratio over a ratio: kept as the root and the divisor
DivRoot(root, b) ==
    IF root.kind # "sqrt" \/ b.kind # "num" THEN NaN
    ELSE IF b.num = 0 THEN (IF root.num = 0 THEN NaN ELSE Infinity)
    ELSE [kind |-> "quot", root |-> root, by |-> b]

\* ** 2 of such a quotient: the ratio under the root over the divisor squared
SquareOf(q) ==
    IF q.kind = "quot"
    THEN Div(Ratio(q.root.num, q.root.den), Mul(q.by, q.by))
    ELSE q

NoStats ==
    [has |-> FALSE, mean |-> NaN, variance |-> NaN, std_deviation |-> NaN,
     dispersion |-> NaN, qv2 |-> NaN, amplitude |-> NaN]

\* --------------------------------------------------------------- annotate
RECURSIVE Flatten(_)
Flatten(seqs) == IF seqs = <<>> THEN <<>> ELSE Head(seqs) \o Flatten(Tail(seqs))

\* the rows of the right table on the key of a left row
OnKey(row, right) ==
    SelectSeq(right.rows, LAMBDA x :
        x.chrom = row.chrom /\ x.start = row.start /\ x.end = row.end)

\* a row of the quantification matrix with the annotation columns empty
Unannotated(row) ==
    [key |-> row.key, counts |-> row.counts,
     chrom |-> row.chrom, start |-> row.start, end |-> row.end,
     gene_name |-> <<>>, strand |-> <<>>, distance |-> <<>>,
     genomic_region |-> <<>>, chromatin_state |-> <<>>,
     support |-> [has |-> FALSE, num |-> 0, den |-> 0],
     stats |-> NoStats]

\* pd.merge(left, right, on=['chrom', 'start', 'end'], how="left"): a left
\* row once per right row on its key, and once with NaN when there is none;
\* the result is numbered anew
Renumbered(rows) == [r \in 1..Len(rows) |-> [rows[r] EXCEPT !.key = Str(r - 1)]]

MergeGene(rows) ==
    Renumbered(Flatten([r \in 1..Len(rows) |->
        LET m == OnKey(rows[r], gene_annotation) IN
        IF m = <<>> THEN <<rows[r]>>
        ELSE [i \in 1..Len(m) |->
                 [rows[r] EXCEPT !.gene_name = m[i].gene_name,
                                 !.strand = m[i].strand,
                                 !.distance = m[i].distance]]]))

MergeRegion(rows) ==
    Renumbered(Flatten([r \in 1..Len(rows) |->
        LET m == OnKey(rows[r], region_annotation) IN
        IF m = <<>> THEN <<rows[r]>>
        ELSE [i \in 1..Len(m) |-> [rows[r] EXCEPT !.genomic_region = m[i].genomic_region]]]))

MergeChromState(rows) ==
    Renumbered(Flatten([r \in 1..Len(rows) |->
        LET m == OnKey(rows[r], chrom_state_annotation) IN
        IF m = <<>> THEN <<rows[r]>>
        ELSE [i \in 1..Len(m) |-> [rows[r] EXCEPT !.chromatin_state = m[i].chromatin_state]]]))

MergeSupport(rows) ==
    Renumbered(Flatten([r \in 1..Len(rows) |->
        LET m == OnKey(rows[r], support) IN
        IF m = <<>> THEN <<rows[r]>>
        ELSE [i \in 1..Len(m) |->
                 [rows[r] EXCEPT !.support = [has |-> TRUE, num |-> m[i].num,
                                              den |-> m[i].den]]]]))

\* the cells of the sample columns of a row, as df[[s.name for s in samples]]
\* selects them
SampleCells(row, names, samples) ==
    [c \in 1..Len(samples) |->
        Ratio(row.counts[ColumnOf(names, samples[c])].num,
              row.counts[ColumnOf(names, samples[c])].den)]

\* DataFrame.mean(axis=1)
MeanOf(cells) == IF cells = <<>> THEN NaN ELSE Div(SumOf(cells), Ratio(Len(cells), 1))

\* DataFrame.var(axis=1): the sum of squared deviations over n - 1, NaN
\* for fewer than two values
VarOf(cells) ==
    IF Len(cells) < 2 THEN NaN
    ELSE Div(SumOf([c \in 1..Len(cells) |->
                       Mul(Sub(cells[c], MeanOf(cells)), Sub(cells[c], MeanOf(cells)))]),
             Ratio(Len(cells) - 1, 1))

\* DataFrame.max(axis=1) - DataFrame.min(axis=1)
AmplitudeOf(cells) == IF cells = <<>> THEN NaN ELSE Sub(MaxOf(cells), MinOf(cells))

\* the six derived columns over the given cells
StatsOver(cells) ==
    [has |-> TRUE,
     mean |-> MeanOf(cells),
     variance |-> VarOf(cells),
     std_deviation |-> SqrtOf(VarOf(cells)),
     dispersion |-> Div(VarOf(cells), MeanOf(cells)),
     qv2 |-> SquareOf(DivRoot(SqrtOf(VarOf(cells)), MeanOf(cells))),
     amplitude |-> AmplitudeOf(cells)]

\* derived columns taken over every numeric cell of the row: the sample
\* columns, start, end and support
WithStatsOverAllCells(rows, names, samples) ==
    [r \in 1..Len(rows) |->
        [rows[r] EXCEPT !.stats =
            StatsOver([c \in 1..Len(names) |->
                          Ratio(rows[r].counts[c].num, rows[r].counts[c].den)]
                      \o <<Ratio(rows[r].start, 1), Ratio(rows[r].end, 1)>>
                      \o (IF rows[r].support.has
                          THEN <<Ratio(rows[r].support.num, rows[r].support.den)>>
                          ELSE <<>>))]]

\* the derived columns of a row are taken over the cells of the samples
WithStats(rows, names, samples) ==
    [r \in 1..Len(rows) |->
        [rows[r] EXCEPT !.stats = StatsOver(SampleCells(rows[r], names, samples))]]

\* self.coverage_annotated.index = self.coverage.index
Reindexed(rows) == [r \in 1..Len(rows) |-> [rows[r] EXCEPT !.key = coverage.rows[r].key]]

GeneColumns == <<"gene_name", "strand", "distance">>
StatColumns == <<"mean", "variance", "std_deviation", "dispersion", "qv2", "amplitude">>

\* the matrix annotate works on: the GC-corrected one unless one is passed
QuantMatrix(kind) == IF kind = "None" THEN coverage_gc_corrected ELSE coverage_qnorm

\* the annotated file written whatever the outcome
PersistedAlways(outcome, table) == table

\* to_csv is the last statement: the file is written when nothing was raised
Persisted(outcome, table) == IF outcome = "ok" THEN table ELSE annotated_file

AnnotateCall(samples, kind, outcome) ==
    Called("annotate", samples, "peaks", kind, <<>>, FALSE, outcome)

\* the value of self.coverage_annotated and the outcome of annotate
AnnotateResult(samples, kind) ==
    LET quant == QuantMatrix(kind)
        start == [r \in 1..Len(quant.rows) |-> Unannotated(quant.rows[r])]
        merged1 == MergeGene(start)
        merged2 == MergeRegion(merged1)
        merged3 == MergeChromState(merged2)
        merged4 == MergeSupport(merged3)
        names1 == quant.names \o GeneColumns
        names2 == names1 \o <<"genomic_region">>
        names3 == names2 \o <<"chromatin_state">>
        names4 == names3 \o <<"support">>
        names5 == names4 \o StatColumns
        derived == WithStats(merged4, quant.names, samples)
    IN
    IF ~quant.has THEN [outcome |-> "AttributeError", table |-> coverage_annotated]
    ELSE IF ~gene_annotation.has
    THEN [outcome |-> "AttributeError", table |-> coverage_annotated]
    ELSE IF ~region_annotation.has
    THEN [outcome |-> "AttributeError", table |-> Table(names1, merged1)]
    ELSE IF ~chrom_state_annotation.has
    THEN [outcome |-> "AttributeError", table |-> Table(names2, merged2)]
    ELSE IF ~support.has
    THEN [outcome |-> "AttributeError", table |-> Table(names3, merged3)]
    ELSE IF ~HasColumns(quant, samples)
    THEN [outcome |-> "KeyError", table |-> Table(names4, merged4)]
    ELSE IF ~coverage.has
    THEN [outcome |-> "AttributeError", table |-> Table(names5, derived)]
    ELSE IF Len(coverage.rows) # Len(derived)
    THEN [outcome |-> "AssertionError", table |-> Table(names5, derived)]
    ELSE [outcome |-> "ok", table |-> Table(names5, Reindexed(derived))]

Annotate(samples, kind) ==
    /\ call' = AnnotateCall(samples, kind, AnnotateResult(samples, kind).outcome)
    /\ coverage_annotated' = AnnotateResult(samples, kind).table
    /\ annotated_file' = Persisted(AnnotateResult(samples, kind).outcome,
                                   AnnotateResult(samples, kind).table)
    /\ returned' = NoTable
    /\ UNCHANGED <<env, consensus_state, support_state, coverage_state, local_coverage,
                   mask, norm_state, getter_state>>

\* ------------------------------------------------------- specifications
\* no reference file in place
NoRefs == [tss |-> <<>>, genes |-> <<>>, tss2kb |-> <<>>, utr5 |-> <<>>,
           exons |-> <<>>, introns |-> <<>>, utr3 |-> <<>>, states |-> <<>>]

\* an Analysis on which no normalization and no annotation has run
NothingNormalized ==
    /\ coverage_qnorm = NoTable
    /\ qnorm_file = NoTable
    /\ nuc = NoTable
    /\ coverage_gc_corrected = NoTable
    /\ coverage_rpm = NoTable

NothingAnnotated ==
    /\ gene_annotation = NoTable
    /\ region_annotation = NoTable
    /\ chrom_state_annotation = NoTable
    /\ coverage_annotated = NoTable
    /\ annotated_file = NoTable

Blacklists == {<<>>} \cup {<<i>> : i \in {Iv("chr1", 0, 1), Iv("chr1", 0, MaxPos)}}

\* the first sample's file holds up to MaxPeaks peaks, the second's one
InitConsensus ==
    /\ peaks_fs \in {f \in [SampleNames -> {NoIvs} \cup {SomeIvs(g) : g \in PeakFiles}] :
                        Len(f["s2"].ivs) <= 1}
    /\ bam_fs = [n \in SampleNames |-> [has |-> FALSE, reads |-> {}]]
    /\ blacklist \in Blacklists
    /\ self_samples = <<"s1", "s2">>
    /\ sites = NoIvs
    /\ peak_set_file = NoIvs
    /\ support = NoTable
    /\ support_files = [binary |-> NoTable, support |-> NoTable]
    /\ coverage = NoTable
    /\ raw_coverage_file = NoTable
    /\ output_file = NoTable
    /\ call = NoCall
    /\ local_coverage = NoTable
    /\ pool = IdlePool
    /\ returned = NoTable
    /\ mask = NoMask
    /\ refs = NoRefs
    /\ NothingNormalized
    /\ NothingAnnotated

NextConsensus ==
    \E samples \in SampleLists, region_type \in RegionTypes :
        GetConsensusSites(samples, region_type, Extension)

SpecConsensus == InitConsensus /\ [][NextConsensus]_vars

\* the consensus an Analysis can hold when support is computed
SupportSites ==
    {NoIvs, SomeIvs(<<>>), SomeIvs(<<Iv("chr1", 1, MaxPos)>>),
     SomeIvs(<<Iv("chr1", 0, 1), Iv("chr1", 2, MaxPos)>>)}

Chr1Files == {f \in PeakFiles : \A i \in 1..Len(f) : f[i].chrom = "chr1"}

\* the peak file of the second sample: absent, or one peak at either end
SecondSampleFiles ==
    {NoIvs, SomeIvs(<<Iv("chr1", 0, 1)>>), SomeIvs(<<Iv("chr1", MaxPos - 1, MaxPos)>>)}

InitSupport ==
    /\ peaks_fs \in {f \in [SampleNames -> {NoIvs} \cup {SomeIvs(g) : g \in Chr1Files}] :
                        f["s2"] \in SecondSampleFiles}
    /\ bam_fs = [n \in SampleNames |-> [has |-> FALSE, reads |-> {}]]
    /\ blacklist = <<>>
    /\ self_samples \in {<<"s1">>, <<"s1", "s2">>}
    /\ sites \in SupportSites
    /\ peak_set_file = sites
    /\ support = NoTable
    /\ support_files = [binary |-> NoTable, support |-> NoTable]
    /\ coverage = NoTable
    /\ raw_coverage_file = NoTable
    /\ output_file = NoTable
    /\ call = NoCall
    /\ local_coverage = NoTable
    /\ pool = IdlePool
    /\ returned = NoTable
    /\ mask = NoMask
    /\ refs = NoRefs
    /\ NothingNormalized
    /\ NothingAnnotated

NextSupport ==
    \/ \E samples \in SampleLists, region_type \in RegionTypes :
          CalculatePeakSupport(samples, region_type)
    \/ \E samples \in SampleLists : GetSupportedPeaks(samples)

SpecSupport == InitSupport /\ [][NextSupport]_vars

\* the alignments a file can hold, as read positions on chr1
ReadSets == {{}, {0, 1}, {MaxPos - 1}}

\* the region sets passed as the sites argument
SiteArguments ==
    {<<Iv("chr1", 0, 2)>>, <<Iv("chr1", 0, 1), Iv("chrM", 0, 1)>>}

SitesKinds == {"None", "BedTool", "DataFrame", "str"}

InitCoverage ==
    /\ peaks_fs = [n \in SampleNames |-> NoIvs]
    /\ bam_fs \in [SampleNames -> {[has |-> FALSE, reads |-> {}]} \cup
                                  {[has |-> TRUE, reads |-> r] : r \in ReadSets}]
    /\ blacklist = <<>>
    /\ self_samples = <<"s1", "s2">>
    /\ sites \in SupportSites
    /\ peak_set_file = sites
    /\ support = NoTable
    /\ support_files = [binary |-> NoTable, support |-> NoTable]
    /\ coverage = NoTable
    /\ raw_coverage_file = NoTable
    /\ output_file = NoTable
    /\ call = NoCall
    /\ local_coverage = NoTable
    /\ pool = IdlePool
    /\ returned = NoTable
    /\ mask = NoMask
    /\ refs = NoRefs
    /\ NothingNormalized
    /\ NothingAnnotated

NextCoverage ==
    \E samples \in SampleLists, out \in BOOLEAN :
        \/ MeasureCoverage(samples, "None", <<>>, out)
        \/ \E sites_kind \in SitesKinds \ {"None"}, sites_arg \in SiteArguments :
              MeasureCoverage(samples, sites_kind, sites_arg, out)

SpecCoverage == InitCoverage /\ [][NextCoverage]_vars

\* the consensus an Analysis holds when its coverage is normalized
NormalizeSites ==
    {SomeIvs(<<Iv("chr1", 1, MaxPos)>>),
     SomeIvs(<<Iv("chr1", 0, 1), Iv("chr1", 2, MaxPos)>>)}

\* the sample lists the normalizations are run on
NormalizeLists == {<<"s1">>, <<"s1", "s2">>}

InitNormalize ==
    /\ peaks_fs = [n \in SampleNames |-> NoIvs]
    /\ bam_fs \in {f \in [SampleNames -> {[has |-> TRUE, reads |-> r] : r \in ReadSets}] :
                      f["s1"].reads # {} /\ f["s2"].reads # {MaxPos - 1}}
    /\ blacklist = <<>>
    /\ self_samples = <<"s1", "s2">>
    /\ sites \in NormalizeSites
    /\ peak_set_file = sites
    /\ support = NoTable
    /\ support_files = [binary |-> NoTable, support |-> NoTable]
    /\ coverage = NoTable
    /\ raw_coverage_file = NoTable
    /\ output_file = NoTable
    /\ call = NoCall
    /\ local_coverage = NoTable
    /\ pool = IdlePool
    /\ returned = NoTable
    /\ mask = NoMask
    /\ refs = NoRefs
    /\ NothingNormalized
    /\ NothingAnnotated

NextNormalize ==
    \/ \E samples \in NormalizeLists : MeasureCoverage(samples, "None", <<>>, FALSE)
    \/ \E samples \in NormalizeLists : NormalizeCoverageQuantiles(samples)
    \/ GetPeakGccontentLength
    \/ \E samples \in NormalizeLists : NormalizeGcContent(samples)
    \/ \E save \in BOOLEAN : NormalizeCoverageRpm(save)
    \/ \E method \in Methods, samples \in NormalizeLists : Normalize(method, samples)

SpecNormalize == InitNormalize /\ [][NextNormalize]_vars

\* sites wide enough for a feature to overlap them by less than the fraction
Wide == 2 * MaxPos

AnnotateSites ==
    {NoIvs,
     SomeIvs(<<Iv("chr1", 0, Wide)>>),
     SomeIvs(<<Iv("chr1", 0, Wide), Iv("chr1", Wide, 2 * Wide)>>)}

\* the gene bodies: over the first site, one base into either site, or over
\* the second site
GeneFiles ==
    {<<Iv("chr1", 0, Wide)>>, <<Iv("chr1", Wide - 1, Wide + 1)>>,
     <<Iv("chr1", Wide, 2 * Wide)>>}

\* the windows around the start sites: two bases into either site, or the
\* start of the first
Tss2kbFiles == {<<Iv("chr1", Wide - 2, Wide + 2)>>, <<Iv("chr1", 0, 2)>>}

\* the start sites: two of one gene in the first site, two of two genes,
\* or none on the chromosome of the sites
TssFiles ==
    {<<Feature("chr1", 1, 2, "g1", "+"), Feature("chr1", 3, 4, "g1", "+")>>,
     <<Feature("chr1", 1, 2, "g1", "+"), Feature("chr1", 3, 4, "g2", "-")>>,
     <<Feature("chrM", 0, 1, "g1", "+")>>}

\* the chromatin segments: two of one state over the first site, two of two
\* states, or one of them a single base into the site
StateFiles ==
    {<<Feature("chr1", 0, MaxPos, "TssA", "."), Feature("chr1", MaxPos, Wide, "TssA", ".")>>,
     <<Feature("chr1", 0, MaxPos, "TssA", "."), Feature("chr1", MaxPos, 2 * Wide, "Enh", ".")>>,
     <<Feature("chr1", 0, 1, "TssA", "."), Feature("chr1", 1, Wide, "Enh", ".")>>}

AnnotateRefs ==
    {[tss |-> t, genes |-> g, tss2kb |-> w, utr5 |-> <<Iv("chr1", 0, 2)>>,
      exons |-> <<Iv("chr1", 0, 2)>>, introns |-> <<Iv("chr1", 2, 4)>>,
      utr3 |-> <<Iv("chr1", 4, Wide)>>, states |-> c] :
        t \in TssFiles, g \in GeneFiles, w \in Tss2kbFiles, c \in StateFiles}

InitAnnotate ==
    /\ peaks_fs = [n \in SampleNames |-> NoIvs]
    /\ bam_fs = [n \in SampleNames |-> [has |-> FALSE, reads |-> {}]]
    /\ blacklist = <<>>
    /\ self_samples = <<"s1", "s2">>
    /\ sites \in AnnotateSites
    /\ peak_set_file = sites
    /\ support = NoTable
    /\ support_files = [binary |-> NoTable, support |-> NoTable]
    /\ coverage = NoTable
    /\ raw_coverage_file = NoTable
    /\ output_file = NoTable
    /\ call = NoCall
    /\ local_coverage = NoTable
    /\ pool = IdlePool
    /\ returned = NoTable
    /\ mask = NoMask
    /\ refs \in AnnotateRefs
    /\ NothingNormalized
    /\ NothingAnnotated

NextAnnotate ==
    \/ GetPeakGeneAnnotation
    \/ GetPeakGenomicLocation
    \/ GetPeakChromatinState

SpecAnnotate == InitAnnotate /\ [][NextAnnotate]_vars

\* the sample list the stages of a run are called with
PipelineSamples == <<"s1", "s2">>

\* the sample lists the consensus is built and rebuilt from
ConsensusLists == {<<"s1", "s2">>, <<"s1">>}

\* the path passed to set_consensus_sites
PipelineBeds == {OtherBed(<<Iv("chr1", 0, Wide)>>)}

\* the quant_matrix argument of annotate: left out, or self.coverage_qnorm
QuantKinds == {"None", "coverage_qnorm"}

PipelineRefs ==
    [tss |-> <<Feature("chr1", 1, 2, "g1", "+"), Feature("chr1", 3, 4, "g2", "-")>>,
     genes |-> <<Iv("chr1", 0, Wide)>>,
     tss2kb |-> <<Iv("chr1", Wide - 2, Wide + 2)>>,
     utr5 |-> <<Iv("chr1", 0, 2)>>, exons |-> <<Iv("chr1", 0, 2)>>,
     introns |-> <<Iv("chr1", 2, 4)>>, utr3 |-> <<Iv("chr1", 4, Wide)>>,
     states |-> <<Feature("chr1", 0, MaxPos, "TssA", "."),
                  Feature("chr1", MaxPos, 2 * Wide, "Enh", ".")>>]

\* an Analysis as constructed, or one on which the consensus was built from
\* its samples and the three annotation tables were made
InitPipeline ==
    /\ peaks_fs = [n \in SampleNames |->
                      IF n = "s1" THEN SomeIvs(<<Iv("chr1", 0, Wide)>>)
                      ELSE SomeIvs(<<Iv("chr1", Wide + 1, 2 * Wide)>>)]
    /\ bam_fs \in {f \in [SampleNames -> {[has |-> FALSE, reads |-> {}],
                                           [has |-> TRUE, reads |-> {0, 1}],
                                           [has |-> TRUE, reads |-> {Wide + 1}]}] :
                      f["s1"].has /\ f["s1"].reads = {0, 1} /\ f["s2"].reads # {0, 1}}
    /\ blacklist = <<>>
    /\ self_samples = PipelineSamples
    /\ refs = PipelineRefs
    /\ \/ /\ sites = NoIvs
          /\ NothingAnnotated
       \/ /\ sites = SomeIvs(FilterSites(Merge(
                          ConsensusFold(PipelineSamples, 1, "peaks", Extension, Unbound).ivs)))
          /\ gene_annotation = GeneAnnotationOf(sites.ivs, refs.tss)
          /\ region_annotation = RegionAnnotationOf(sites.ivs)
          /\ chrom_state_annotation = ChromStateAnnotationOf(sites.ivs, refs.states)
          /\ coverage_annotated = NoTable
          /\ annotated_file = NoTable
    /\ peak_set_file = sites
    /\ support = NoTable
    /\ support_files = [binary |-> NoTable, support |-> NoTable]
    /\ coverage = NoTable
    /\ raw_coverage_file = NoTable
    /\ output_file = NoTable
    /\ call = NoCall
    /\ local_coverage = NoTable
    /\ pool = IdlePool
    /\ returned = NoTable
    /\ mask = NoMask
    /\ NothingNormalized

NextPipeline ==
    \/ \E samples \in ConsensusLists : GetConsensusSites(samples, "peaks", Extension)
    \/ \E bed_file \in PipelineBeds, overwrite \in BOOLEAN :
          SetConsensusSites(bed_file, overwrite)
    \/ CalculatePeakSupport(PipelineSamples, "peaks")
    \/ MeasureCoverage(PipelineSamples, "None", <<>>, FALSE)
    \/ NormalizeCoverageQuantiles(PipelineSamples)
    \/ \E kind \in QuantKinds : Annotate(PipelineSamples, kind)

SpecPipeline == InitPipeline /\ [][NextPipeline]_vars

\* four samples that each have the same three-region peak file, and no
\* blacklisted region
ExampleNames == {"s1", "s2", "s3", "s4"}

ExamplePeaks == <<Iv("chr1", 100, 300), Iv("chr1", 280, 400), Iv("chr2", 50, 150)>>

\* the lists of Sample objects over the four samples, each at most once
ExampleLists ==
    {l \in UNION {[1..n -> ExampleNames] : n \in 0..Cardinality(ExampleNames)} :
        \A i, j \in 1..Len(l) : i # j => l[i] # l[j]}

InitExample ==
    /\ peaks_fs = [n \in ExampleNames |-> SomeIvs(ExamplePeaks)]
    /\ bam_fs = [n \in ExampleNames |-> [has |-> FALSE, reads |-> {}]]
    /\ blacklist = <<>>
    /\ self_samples = <<"s1", "s2", "s3", "s4">>
    /\ sites = NoIvs
    /\ peak_set_file = NoIvs
    /\ support = NoTable
    /\ support_files = [binary |-> NoTable, support |-> NoTable]
    /\ coverage = NoTable
    /\ raw_coverage_file = NoTable
    /\ output_file = NoTable
    /\ call = NoCall
    /\ local_coverage = NoTable
    /\ pool = IdlePool
    /\ returned = NoTable
    /\ mask = NoMask
    /\ refs = NoRefs
    /\ NothingNormalized
    /\ NothingAnnotated

NextExample ==
    \E samples \in ExampleLists : GetConsensusSites(samples, "peaks", Extension)

SpecExample == InitExample /\ [][NextExample]_vars

\* the consensus an Analysis holds while its reads are counted
WorkerSites ==
    {SomeIvs(<<Iv("chr1", 0, 2), Iv("chr1", 2, MaxPos)>>), SomeIvs(<<Iv("chr1", 0, MaxPos)>>)}

InitWorkers ==
    /\ peaks_fs = [n \in SampleNames |-> NoIvs]
    /\ bam_fs \in [SampleNames -> {[has |-> FALSE, reads |-> {}]} \cup
                                  {[has |-> TRUE, reads |-> r] : r \in ReadSets}]
    /\ blacklist = <<>>
    /\ self_samples = <<"s1", "s2">>
    /\ sites \in WorkerSites
    /\ peak_set_file = sites
    /\ support = NoTable
    /\ support_files = [binary |-> NoTable, support |-> NoTable]
    /\ coverage = NoTable
    /\ raw_coverage_file = NoTable
    /\ output_file = NoTable
    /\ call = NoCall
    /\ local_coverage = NoTable
    /\ pool = IdlePool
    /\ returned = NoTable
    /\ mask = NoMask
    /\ refs = NoRefs
    /\ NothingNormalized
    /\ NothingAnnotated

NextWorkers ==
    \/ \E samples \in SampleLists, out \in BOOLEAN :
          MeasureCoverageDispatch(samples, "None", <<>>, out)
    \/ \E k \in 1..Cardinality(SampleNames) : WorkerReturns(k)
    \/ MeasureCoverageJoin

SpecWorkers == InitWorkers /\ [][NextWorkers]_vars

\* three samples that all have a peak file: the first holds up to MaxPeaks
\* peaks, the others one
OrderNames == {"s1", "s2", "s3"}

\* the three samples in every order
OrderLists ==
    {l \in [1..Cardinality(OrderNames) -> OrderNames] :
        \A i, j \in 1..Len(l) : i # j => l[i] # l[j]}

OnePeakFiles == {<<Iv("chr1", 0, 1)>>, <<Iv("chr1", 1, 2)>>, <<Iv("chrM", 0, 1)>>}

InitOrder ==
    /\ peaks_fs \in {f \in [OrderNames -> {SomeIvs(g) : g \in PeakFiles}] :
                        f["s2"].ivs \in OnePeakFiles /\ f["s3"].ivs \in OnePeakFiles}
    /\ bam_fs = [n \in OrderNames |-> [has |-> FALSE, reads |-> {}]]
    /\ blacklist = <<>>
    /\ self_samples = <<"s1", "s2", "s3">>
    /\ sites = NoIvs
    /\ peak_set_file = NoIvs
    /\ support = NoTable
    /\ support_files = [binary |-> NoTable, support |-> NoTable]
    /\ coverage = NoTable
    /\ raw_coverage_file = NoTable
    /\ output_file = NoTable
    /\ call = NoCall
    /\ local_coverage = NoTable
    /\ pool = IdlePool
    /\ returned = NoTable
    /\ mask = NoMask
    /\ refs = NoRefs
    /\ NothingNormalized
    /\ NothingAnnotated

NextOrder ==
    \E samples \in OrderLists, region_type \in RegionTypes :
        GetConsensusSites(samples, region_type, Extension)

SpecOrder == InitOrder /\ [][NextOrder]_vars

\* the paths passed to set_consensus_sites: two files elsewhere, and the
\* peak-set file of the Analysis
SetSitesBeds ==
    {OtherBed(<<Iv("chr1", 0, Wide)>>),
     OtherBed(<<Iv("chr1", 0, 1), Iv("chr1", 2, MaxPos)>>),
     PeakSetPath}

\* an Analysis as constructed, with the samples and files of the pipeline
InitSetSites == InitPipeline /\ ~sites.has

NextSetSites ==
    \/ \E samples \in ConsensusLists : GetConsensusSites(samples, "peaks", Extension)
    \/ \E bed_file \in SetSitesBeds, overwrite \in BOOLEAN :
          SetConsensusSites(bed_file, overwrite)
    \/ MeasureCoverage(PipelineSamples, "None", <<>>, FALSE)

SpecSetSites == InitSetSites /\ [][NextSetSites]_vars

\* ---------------------------------------------------- consensus claims
LastWas(op) == call.op = op
Completed(op) == call.op = op /\ call.outcome = "ok"

\* the samples of a list whose peaks file exists
Usable(samples) == SelectSeq(samples, LAMBDA n : peaks_fs[n].has)

NoTwoTouch(ivs) ==
    \A i, j \in 1..Len(ivs) : i # j => ~Touches(ivs[i], ivs[j])

\* C1: after get_consensus_sites completes, self.sites (read back from the
\* peak-set file) is sorted by (chrom, start, end), has no two intervals
\* that overlap or abut, has no interval overlapping a blacklist interval
\* and has no interval on chrM.
C1_ConsensusMergedFiltered ==
    Completed("get_consensus_sites") =>
        /\ sites.has /\ sites = peak_set_file
        /\ StrictlySorted(sites.ivs)
        /\ NoTwoTouch(sites.ivs)
        /\ \A i \in 1..Len(sites.ivs) :
              /\ \A j \in 1..Len(blacklist) : ~Overlaps(sites.ivs[i], blacklist[j])
              /\ sites.ivs[i].chrom # "chrM"

\* a completed build over two samples with peaks merged across the
\* samples, a chrM peak and a blacklisted peak among the inputs, fewer sites
\* than merged intervals, and a site left over
C1_Witness ==
    /\ Completed("get_consensus_sites")
    /\ call.region_type = "peaks"
    /\ call.samples = <<"s1", "s2">>
    /\ peaks_fs["s1"].has /\ peaks_fs["s2"].has
    /\ Len(sites.ivs) >= 1
    /\ blacklist # <<>>
    /\ Len(sites.ivs) < Len(Cat(Merge(peaks_fs["s1"].ivs), Merge(peaks_fs["s2"].ivs)))
    /\ \E n \in SampleNames : \E i \in 1..Len(peaks_fs[n].ivs) :
          \/ peaks_fs[n].ivs[i].chrom = "chrM"
          \/ Overlaps(peaks_fs[n].ivs[i], blacklist[1])
    /\ \E i \in 1..Len(peaks_fs["s1"].ivs), j \in 1..Len(peaks_fs["s2"].ivs) :
          /\ peaks_fs["s1"].ivs[i].chrom = "chr1"
          /\ Touches(peaks_fs["s1"].ivs[i], peaks_fs["s2"].ivs[j])

\* the consensus of a sample list none of whose files is absent
ConsensusOf(samples, region_type, extension) ==
    FilterSites(Merge(ConsensusFold(samples, 1, region_type, extension, Unbound).ivs))

\* C2: a sample whose peaks file is absent is skipped without aborting the
\* build, at whatever position it occurs in the list, and the consensus is
\* the one built from the remaining usable samples alone.
C2_AbsentSampleSkipped ==
    (LastWas("get_consensus_sites") /\ Usable(call.samples) # <<>>) =>
        /\ call.outcome = "ok"
        /\ sites = SomeIvs(ConsensusOf(Usable(call.samples), call.region_type, Extension))

\* C3: with no usable sample (empty list or every file absent)
\* get_consensus_sites raises, does not set self.sites and does not write
\* the peak-set file.
C3_NoUsableSampleRaises ==
    [][(call'.op = "get_consensus_sites" /\ Usable(call'.samples) = <<>>) =>
          /\ call'.outcome # "ok"
          /\ sites' = sites
          /\ peak_set_file' = peak_set_file]_vars

\* a call whose samples all lack their file, made after a consensus was built
C3_Witness ==
    /\ LastWas("get_consensus_sites")
    /\ call.samples # <<>>
    /\ Usable(call.samples) = <<>>
    /\ call.outcome = "UnboundLocalError"
    /\ sites.has

\* ------------------------------------------------------ support claims
\* the samples of the supplied list whose own count for a row is at least 1
Supporting(row) == Cardinality({k \in 1..Len(row.counts) : row.counts[k] >= 1})

\* C8: for every region of the Support Table, support is the number of
\* supplied samples whose own overlap count is at least 1, divided by the
\* number of supplied samples (the mean over the count columns of
\* min(count, 1)).
C8_SupportIsMeanOfIndicators ==
    Completed("calculate_peak_support") =>
        \A r \in 1..Len(support.rows) :
            support.rows[r].num * Len(call.samples) =
                Supporting(support.rows[r]) * support.rows[r].den

\* C9: for every region and every supplied sample list, 0 <= support <= 1,
\* and a region overlapped by every supplied sample has support exactly 1.
C9_SupportBounds ==
    Completed("calculate_peak_support") =>
        \A r \in 1..Len(support.rows) :
            /\ 0 <= support.rows[r].num
            /\ support.rows[r].num <= support.rows[r].den
            /\ (Supporting(support.rows[r]) = Len(call.samples)) =>
                   support.rows[r].num = support.rows[r].den

\* C10: get_supported_peaks returns one boolean per region of the Support
\* Table, in row order, true exactly when some sample of the given subset
\* has a nonzero raw count for the region; the Support Table and its files
\* are left as they were.
C10_MaskFromRawCounts ==
    [][(call'.op = "get_supported_peaks" /\ call'.outcome = "ok") =>
          /\ mask'.has
          /\ Len(mask'.vals) = Len(support.rows)
          /\ \A r \in 1..Len(support.rows) :
                mask'.vals[r] =
                    (\E k \in 1..Len(call'.samples) :
                        support.rows[r].counts[
                            ColumnOf(support.names, call'.samples[k])] > 0)
          /\ support' = support
          /\ support_files' = support_files]_vars

\* a mask over a strict subset of the table's samples, with a region the
\* subset does not support and a region it overlaps twice
C10_Witness ==
    /\ Completed("get_supported_peaks")
    /\ Len(call.samples) = 1
    /\ Len(support.names) = 2
    /\ mask.has
    /\ \E r \in 1..Len(mask.vals) : ~mask.vals[r]
    /\ \E r \in 1..Len(mask.vals) :
          /\ mask.vals[r]
          /\ support.rows[r].counts[ColumnOf(support.names, call.samples[1])] = 2

\* ----------------------------------------------------- coverage claims
\* the regions a call was given: the canonical consensus when sites is
\* None, the argument otherwise
GivenRegions == IF call.sites_kind = "None" THEN sites.ivs ELSE call.sites_arg

RowRegions(table) ==
    [r \in 1..Len(table.rows) |->
        Iv(table.rows[r].chrom, table.rows[r].start, table.rows[r].end)]

\* a call that has the consensus it needs
HasItsSites(c) == c.sites_kind \in {"DataFrame", "str"} \/ sites.has

NoneMissing(samples) == WithAlignments(samples) = samples
AllMissing(samples) == samples # <<>> /\ WithAlignments(samples) = <<>>

\* C4: with no explicit sites and no output_file the result becomes
\* self.coverage and is persisted; with an explicit output_file or explicit
\* sites the call completes, the result goes to the explicit target only
\* (the file, or the return value), and self.coverage and the raw-coverage
\* file stay as they were.
C4_TwoModes ==
    [][(call'.op = "measure_coverage" /\ HasItsSites(call')
            /\ WithAlignments(call'.samples) # <<>>) =>
          IF call'.sites_kind = "None" /\ ~call'.output_file
          THEN /\ call'.outcome = "ok"
               /\ coverage' = local_coverage'
               /\ raw_coverage_file' = local_coverage'
          ELSE /\ call'.outcome = "ok"
               /\ coverage' = coverage
               /\ raw_coverage_file' = raw_coverage_file
               /\ IF call'.output_file
                  THEN output_file' = local_coverage'
                  ELSE returned' = local_coverage']_vars

\* C5: the rows of the matrix measure_coverage builds are the regions of
\* the region set it was given, in order.
C5_RowsAreGivenRegions ==
    (LastWas("measure_coverage") /\ local_coverage.has
        /\ WithAlignments(call.samples) # <<>>) =>
        RowRegions(local_coverage) = GivenRegions

\* C6: when some but not all samples lack an alignment file, no error is
\* raised and the matrix has one column per sample whose file exists, in
\* the order of the supplied list.
C6_MissingSamplesDropped ==
    (LastWas("measure_coverage") /\ HasItsSites(call)
        /\ ~NoneMissing(call.samples) /\ ~AllMissing(call.samples)) =>
        /\ call.outcome = "ok"
        /\ local_coverage.names = WithAlignments(call.samples)

\* C7: when all supplied samples lack an alignment file, measure_coverage
\* fails instead of producing, and storing, an empty matrix.
C7_AllMissingFails ==
    (LastWas("measure_coverage") /\ AllMissing(call.samples)) =>
        call.outcome # "ok"


\* ------------------------------------------------- normalization claims
\* the row labels of a matrix, in row order
KeysOf(table) == [r \in 1..Len(table.rows) |-> table.rows[r].key]

\* everything normalize_gc_content needs besides its two cached inputs is
\* in place, and whichever of the two is cached fits the coverage matrix
GcInputsReady(samples) ==
    /\ sites.has /\ coverage.has
    /\ Len(coverage.rows) > 0
    /\ HasColumns(coverage, samples)
    /\ \A r \in 1..Len(coverage.rows) :
          \E i \in 1..Len(sites.ivs) : FormatRegion(sites.ivs[i]) = coverage.rows[r].key
    /\ nuc.has => /\ KeysOf(nuc) = KeysOf(coverage)
                  /\ \A r \in 1..Len(nuc.rows) : nuc.rows[r].found
    /\ coverage_qnorm.has => /\ KeysOf(coverage_qnorm) = KeysOf(coverage)
                             /\ HasColumns(coverage_qnorm, samples)

\* C13: normalize_gc_content computes the quantile-normalized matrix first
\* when it is missing and the covariate table first when it is missing,
\* whichever of the two is already cached, and so completes from every
\* state in which its other inputs are in place.
C13_LazyDependencies ==
    [][(call'.op = "normalize_gc_content" /\ GcInputsReady(call'.samples)) =>
          /\ call'.outcome = "ok"
          /\ coverage_qnorm'.has /\ nuc'.has /\ coverage_gc_corrected'.has]_vars

\* C14: the dispatcher called right after the strategy of its method, on
\* the same Analysis, returns the matrix the strategy returned and leaves
\* the strategy's cached attribute as it was.
C14_DispatchPassThrough ==
    [][(/\ call.outcome = "ok" /\ call'.outcome = "ok"
        /\ call'.op = "normalize"
        /\ call.op = StrategyOf(call'.sites_kind)
        /\ (call.op = "normalize_coverage_quantiles" => call.samples = call'.samples)) =>
          /\ returned'.has
          /\ returned' = returned
          /\ coverage_rpm' = coverage_rpm
          /\ coverage_qnorm' = coverage_qnorm]_vars

NoRepeats(seq) == \A i, j \in 1..Len(seq) : i # j => seq[i] # seq[j]

\* every region key of a table is on one row only
UniqueKeys(table) ==
    \A i, j \in 1..Len(table.rows) :
        (/\ table.rows[i].chrom = table.rows[j].chrom
         /\ table.rows[i].start = table.rows[j].start
         /\ table.rows[i].end = table.rows[j].end) => i = j

\* C16: in the gene, genomic-context and chromatin-state tables every
\* region key is on at most one row and the comma-joined value of a row
\* names each distinct hit value once.
C16_AnnotationValuesDistinct ==
    /\ gene_annotation.has =>
          /\ UniqueKeys(gene_annotation)
          /\ \A r \in 1..Len(gene_annotation.rows) :
                /\ NoRepeats(gene_annotation.rows[r].gene_name)
                /\ NoRepeats(gene_annotation.rows[r].strand)
                /\ NoRepeats(gene_annotation.rows[r].distance)
    /\ region_annotation.has =>
          /\ UniqueKeys(region_annotation)
          /\ \A r \in 1..Len(region_annotation.rows) :
                NoRepeats(region_annotation.rows[r].genomic_region)
    /\ chrom_state_annotation.has =>
          /\ UniqueKeys(chrom_state_annotation)
          /\ \A r \in 1..Len(chrom_state_annotation.rows) :
                NoRepeats(chrom_state_annotation.rows[r].chromatin_state)

\* a feature covers at least a fifth of a site
CoversFifth(a, b) ==
    /\ a.chrom = b.chrom /\ a.start < b.end /\ b.start < a.end
    /\ 5 * (Min(a.end, b.end) - Max(a.start, b.start)) >= a.end - a.start

InCategory(a, file) == \E j \in 1..Len(file) : CoversFifth(a, file[j])

\* the reference categories a site can match
CategoryFiles == <<refs.genes, refs.tss2kb, refs.utr5, refs.exons, refs.introns, refs.utr3>>

\* the labels the genomic-context table holds for a site
RegionLabels(a) ==
    IF \E r \in 1..Len(region_annotation.rows) :
          /\ region_annotation.rows[r].chrom = a.chrom
          /\ region_annotation.rows[r].start = a.start
          /\ region_annotation.rows[r].end = a.end
    THEN LET row == region_annotation.rows[
                 CHOOSE r \in 1..Len(region_annotation.rows) :
                     /\ region_annotation.rows[r].chrom = a.chrom
                     /\ region_annotation.rows[r].start = a.start
                     /\ region_annotation.rows[r].end = a.end]
         IN {row.genomic_region[i] : i \in 1..Len(row.genomic_region)}
    ELSE {}

\* the statement of C17 as written: a site is labelled intergenic exactly
\* when it matches none of the reference categories, and intergenic stands
\* alone on its row.
C17_IntergenicIffUnmatched ==
    Completed("get_peak_genomic_location") =>
        \A i \in 1..Len(sites.ivs) :
            /\ "intergenic" \in RegionLabels(sites.ivs[i]) <=>
                  \A c \in 1..Len(CategoryFiles) : ~InCategory(sites.ivs[i], CategoryFiles[c])
            /\ "intergenic" \in RegionLabels(sites.ivs[i]) =>
                  RegionLabels(sites.ivs[i]) = {"intergenic"}

\* C17, amended: a site is labelled intergenic exactly when no gene body
\* covers a fifth of it, and carries the label of each other category
\* exactly when a feature of that category covers a fifth of it, so
\* intergenic can stand beside the label of a category that reaches outside
\* the gene bodies.
C17_IntergenicIffOutsideGenes ==
    Completed("get_peak_genomic_location") =>
        \A i \in 1..Len(sites.ivs) :
            /\ "intergenic" \in RegionLabels(sites.ivs[i]) <=>
                  ~InCategory(sites.ivs[i], refs.genes)
            /\ \A c \in 2..Len(CategoryFiles) :
                  RegionNames[c] \in RegionLabels(sites.ivs[i]) <=>
                      InCategory(sites.ivs[i], CategoryFiles[c])

\* a completed call with a site outside the gene bodies inside the window
\* of a start site, and a gene body that overlaps a site by less than a
\* fifth or a site inside a gene body
C17_Witness ==
    /\ Completed("get_peak_genomic_location")
    /\ \E i \in 1..Len(sites.ivs) :
          {"intergenic", "tss2kb"} \subseteq RegionLabels(sites.ivs[i])
    /\ \E i \in 1..Len(sites.ivs) : "intergenic" \notin RegionLabels(sites.ivs[i])


\* ------------------------------------------------------- pipeline claims
\* C11: whenever the coverage matrix, the support table and the annotated
\* matrix are all present, after any sequence of stage calls, the three
\* have the same number of rows.
C11_RowCountsAgree ==
    (coverage.has /\ support.has /\ coverage_annotated.has) =>
        /\ Len(coverage.rows) = Len(support.rows)
        /\ Len(support.rows) = Len(coverage_annotated.rows)

\* C12: annotate completes only with an annotated matrix that has as many
\* rows as the coverage matrix and then writes that matrix; when the joins
\* give another number of rows it raises, and a call that raises leaves the
\* annotated file as it was.
C12_RowMismatchRaises ==
    [][call'.op = "annotate" =>
          /\ call'.outcome = "ok" =>
                /\ Len(coverage_annotated'.rows) = Len(coverage.rows)
                /\ annotated_file' = coverage_annotated'
          /\ (/\ QuantMatrix(call'.sites_kind).has /\ gene_annotation.has
              /\ region_annotation.has /\ chrom_state_annotation.has /\ support.has
              /\ coverage.has
              /\ Len(MergeSupport(MergeChromState(MergeRegion(MergeGene(
                      QuantMatrix(call'.sites_kind).rows))))) # Len(coverage.rows)) =>
                call'.outcome # "ok"
          /\ call'.outcome # "ok" => annotated_file' = annotated_file]_vars

\* an annotate that raised on the row count, after one that had completed
C12_Witness ==
    /\ call.op = "annotate" /\ call.outcome = "AssertionError"
    /\ coverage.has /\ coverage_annotated.has /\ annotated_file.has
    /\ Len(coverage_annotated.rows) # Len(coverage.rows)
    /\ annotated_file # coverage_annotated

\* the regions a support table has a row for
SupportRegions(table) ==
    [r \in 1..Len(table.rows) |->
        Iv(table.rows[r].chrom, table.rows[r].start, table.rows[r].end)]

\* C18: get_consensus_sites and set_consensus_sites leave every downstream
\* attribute and file as cached, never recomputed, even when the consensus
\* they set no longer matches it; a stage called later works from what is
\* cached at that time: the support table gets the rows of the current
\* consensus, the coverage matrix its region keys, and the
\* quantile-normalized matrix the rows of the cached coverage matrix.
C18_BestEffortCache ==
    [][/\ call'.op \in {"get_consensus_sites", "set_consensus_sites"} =>
             /\ support' = support /\ support_files' = support_files
             /\ coverage' = coverage /\ raw_coverage_file' = raw_coverage_file
             /\ coverage_qnorm' = coverage_qnorm /\ qnorm_file' = qnorm_file
             /\ coverage_gc_corrected' = coverage_gc_corrected
             /\ coverage_annotated' = coverage_annotated
             /\ annotated_file' = annotated_file
       /\ (call'.op = "calculate_peak_support" /\ call'.outcome = "ok") =>
             SupportRegions(support') = sites.ivs
       /\ (call'.op = "measure_coverage" /\ call'.outcome = "ok"
             /\ Len(coverage'.rows) > 0) =>
             KeysOf(coverage') = [i \in 1..Len(sites.ivs) |-> FormatRegion(sites.ivs[i])]
       /\ (call'.op = "normalize_coverage_quantiles" /\ call'.outcome = "ok") =>
             KeysOf(coverage_qnorm') = KeysOf(coverage)]_vars

\* the consensus was set again after a whole run and differs from the one the
\* cached support, coverage and annotated tables were made from
C18_Witness ==
    /\ call.op \in {"get_consensus_sites", "set_consensus_sites"}
    /\ call.outcome = "ok"
    /\ support.has /\ coverage.has /\ coverage_qnorm.has /\ coverage_annotated.has
    /\ SupportRegions(support) # sites.ivs
    /\ Len(coverage.rows) # Len(sites.ivs)

\* the five stages whose second run is compared with the first
RerunStages ==
    {"get_consensus_sites", "calculate_peak_support", "measure_coverage",
     "normalize_coverage_quantiles", "annotate"}

\* C19: a stage called a second time in a row with the same arguments,
\* after it completed, completes again and leaves its attribute and its
\* file equal to what the first call left.
C19_RerunReplaces ==
    [][(/\ call'.op \in RerunStages /\ call'.nth >= 2 /\ call.outcome = "ok"
        /\ (call'.op = "measure_coverage" =>
               call'.sites_kind = "None" /\ ~call'.output_file)) =>
          /\ call'.outcome = "ok"
          /\ sites' = sites /\ peak_set_file' = peak_set_file
          /\ support' = support /\ support_files' = support_files
          /\ coverage' = coverage /\ raw_coverage_file' = raw_coverage_file
          /\ coverage_qnorm' = coverage_qnorm /\ qnorm_file' = qnorm_file
          /\ coverage_annotated' = coverage_annotated
          /\ annotated_file' = annotated_file]_vars

\* the support table was computed twice in a row, with a region that a
\* sample's peak overlaps
C19_Witness ==
    /\ Completed("calculate_peak_support") /\ call.nth = 2
    /\ \E r \in 1..Len(support.rows) : support.rows[r].counts[1] > 0

\* C20: calculate_peak_support and measure_coverage in its default mode,
\* called while no consensus is set, raise and leave the support table, the
\* coverage matrix and their files as they were.
C20_NoConsensusRaises ==
    [][(/\ ~sites.has
        /\ \/ call'.op = "calculate_peak_support"
           \/ call'.op = "measure_coverage" /\ call'.sites_kind = "None"
                                            /\ ~call'.output_file) =>
          /\ call'.outcome # "ok"
          /\ support' = support /\ support_files' = support_files
          /\ coverage' = coverage /\ raw_coverage_file' = raw_coverage_file]_vars

\* default-mode measure_coverage raised on an Analysis with no consensus
C20_Witness ==
    /\ call.op = "measure_coverage" /\ call.sites_kind = "None"
    /\ call.outcome = "AttributeError"
    /\ ~sites.has /\ ~coverage.has /\ ~support.has

\* --------------------------------------------------- last claims
\* the lines of the file at the bed_file argument of the call just made,
\* as they were when the call started
SuppliedLines ==
    IF call'.sites_kind = "peak_set_file" THEN peak_set_file.ivs ELSE call'.sites_arg

\* C21: a completed set_consensus_sites(bed_file, overwrite) leaves self.sites
\* with exactly the intervals of the supplied file, one site per line, and
\* the peak-set file holding them when overwrite is true and untouched
\* otherwise, also when bed_file is the peak-set file itself.
C21_SitesAreTheSuppliedFile ==
    [][(call'.op = "set_consensus_sites" /\ call'.outcome = "ok") =>
          /\ sites' = SomeIvs(SuppliedLines)
          /\ Len(sites'.ivs) = Len(SuppliedLines)
          /\ peak_set_file' = IF call'.output_file THEN SomeIvs(SuppliedLines)
                              ELSE peak_set_file]_vars

\* C22: with four samples that each have the peak file chr1:100-300,
\* chr1:280-400, chr2:50-150, region_type "peaks" and an empty blacklist,
\* get_consensus_sites over the four samples completes and leaves exactly
\* the two regions chr1:100-400 and chr2:50-150, in memory and in the
\* peak-set file.
C22_ExampleConsensus ==
    (/\ call.op = "get_consensus_sites" /\ Len(call.samples) = 4
     /\ call.region_type = "peaks") =>
        /\ call.outcome = "ok"
        /\ sites = SomeIvs(<<Iv("chr1", 100, 400), Iv("chr2", 50, 150)>>)
        /\ peak_set_file = sites

\* the consensus was built from the four samples
C22_Witness ==
    /\ call.op = "get_consensus_sites" /\ call.outcome = "ok"
    /\ Len(call.samples) = 4 /\ call.region_type = "peaks"
    /\ \A n \in ExampleNames : peaks_fs[n] = SomeIvs(ExamplePeaks)
    /\ blacklist = <<>>
    /\ Len(sites.ivs) = 2

\* the local `sites` of the last get_consensus_sites when its loop ended:
\* the per-sample merged peaks, concatenated and merged by cat
FoldedSites ==
    ConsensusFold(call.samples, 1, call.region_type, Extension, Unbound).ivs

\* C23: merging a merged interval set changes nothing: the final merge of
\* get_consensus_sites, which is given the set cat has already merged,
\* returns it as it is; merging the merged peaks of a sample again, or the
\* consensus the build left, gives the same intervals with the same
\* boundaries.
C23_MergeIdempotent ==
    (call.op = "get_consensus_sites" /\ call.outcome = "ok") =>
        /\ \A i \in 1..Len(call.samples) :
              LET loaded == LoadPeaks(call.samples[i], call.region_type, Extension) IN
              loaded.has => Merge(Merge(loaded.ivs)) = Merge(loaded.ivs)
        /\ Merge(FoldedSites) = FoldedSites
        /\ Merge(sites.ivs) = sites.ivs
        /\ Len(Merge(sites.ivs)) = Len(sites.ivs)

\* a build over two samples in which merging joined features and that left
\* a consensus with at least one site
C23_Witness ==
    /\ call.op = "get_consensus_sites" /\ call.outcome = "ok"
    /\ Len(call.samples) = 2
    /\ \A i \in 1..2 : peaks_fs[call.samples[i]].has
    /\ Len(sites.ivs) >= 1
    /\ Len(FoldedSites) < Len(peaks_fs["s1"].ivs) + Len(peaks_fs["s2"].ivs)

\* the table has a row keyed by the site
HasRowFor(table, a) ==
    \E r \in 1..Len(table.rows) :
        /\ table.rows[r].chrom = a.chrom
        /\ table.rows[r].start = a.start
        /\ table.rows[r].end = a.end

\* C24: the table a completed get_peak_gene_annotation or
\* get_peak_chromatin_state stores has at least as many rows as there are
\* consensus sites, and a row for every consensus site.
C24_NoSiteMissing ==
    /\ (call.op = "get_peak_gene_annotation" /\ call.outcome = "ok") =>
          /\ Len(gene_annotation.rows) >= Len(sites.ivs)
          /\ \A i \in 1..Len(sites.ivs) : HasRowFor(gene_annotation, sites.ivs[i])
    /\ (call.op = "get_peak_chromatin_state" /\ call.outcome = "ok") =>
          /\ Len(chrom_state_annotation.rows) >= Len(sites.ivs)
          /\ \A i \in 1..Len(sites.ivs) : HasRowFor(chrom_state_annotation, sites.ivs[i])

\* a measure_coverage that ran its workers has passed parmap.map
Joined ==
    /\ ~pool.active
    /\ call.op = "measure_coverage"
    /\ call.outcome \in {"ok", "UnboundLocalError"}

\* C25: the matrix measure_coverage assembles is fixed by the samples and
\* the regions alone, whatever order the workers returned in; the column
\* named after a sample holds the counts of that sample's reads in each
\* region; and the matrix is assembled only once every worker has returned.
C25_JoinWithoutRaces ==
    /\ [](Joined =>
            /\ local_coverage = AssembleCoverage(pool.present, pool.keys)
            /\ \A r \in 1..Len(local_coverage.rows), k \in 1..Len(local_coverage.names) :
                  local_coverage.rows[r].counts[k] =
                      CountReads(local_coverage.names[k], local_coverage.rows[r].key)
            /\ \A k \in 1..Len(pool.present) : pool.results[k].done)
    /\ [][(local_coverage' # local_coverage \/ coverage' # coverage
           \/ (pool.active /\ ~pool'.active)) =>
             \A k \in 1..Len(pool.present) : pool.results[k].done]_vars

\* two workers returned in the reverse of the order of the samples, with
\* different counts, and the matrix was assembled
C25_Witness ==
    /\ Joined
    /\ pool.finished = <<2, 1>>
    /\ Len(local_coverage.rows) >= 1
    /\ local_coverage.rows[1].counts[1] # local_coverage.rows[1].counts[2]

\* the cells of a row of the annotated matrix under the columns named
\* after the samples of the call
CellsOfSamples(row) ==
    [c \in 1..Len(call.samples) |->
        Ratio(row.counts[ColumnOf(coverage_annotated.names, call.samples[c])].num,
              row.counts[ColumnOf(coverage_annotated.names, call.samples[c])].den)]

\* the derived columns of the row are those of the given cells
DerivedFrom(row, cells) ==
    LET st == row.stats
        n == Len(cells)
        deviations == [c \in 1..n |-> Mul(Sub(cells[c], st.mean), Sub(cells[c], st.mean))]
    IN
    /\ st.has
    /\ Mul(st.mean, Ratio(n, 1)) = SumOf(cells)
    /\ IF n < 2 THEN st.variance = NaN
       ELSE Mul(st.variance, Ratio(n - 1, 1)) = SumOf(deviations)
    /\ IF st.variance = NaN THEN st.std_deviation = NaN
       ELSE /\ st.std_deviation.kind = "sqrt"
            /\ Ratio(st.std_deviation.num, st.std_deviation.den) = st.variance
    /\ IF st.variance = NaN \/ st.mean.num = 0
       THEN st.dispersion.kind # "num" /\ st.qv2.kind # "num"
       ELSE /\ Mul(st.dispersion, st.mean) = st.variance
            /\ Mul(st.qv2, Mul(st.mean, st.mean)) = st.variance
    /\ \E hi, lo \in 1..n :
          /\ \A c \in 1..n : ~Less(cells[hi], cells[c]) /\ ~Less(cells[c], cells[lo])
          /\ Add(st.amplitude, cells[lo]) = cells[hi]
    /\ st.amplitude.kind = "num" /\ st.amplitude.num >= 0

\* C26: the mean, variance, std_deviation, dispersion (variance / mean), qv2
\* ((std_deviation / mean) ^ 2) and amplitude (max - min) of every row of
\* the matrix annotate stores are those of the row's cells under the columns
\* of the samples it was called with, and of no other cell; amplitude is
\* never negative.
C26_DerivedColumns ==
    (call.op = "annotate" /\ coverage_annotated.has) =>
        \A r \in 1..Len(coverage_annotated.rows) :
            (call.outcome = "ok" \/ coverage_annotated.rows[r].stats.has) =>
                DerivedFrom(coverage_annotated.rows[r],
                            CellsOfSamples(coverage_annotated.rows[r]))

\* annotate completed on a matrix with a row whose two samples differ, which
\* also has a support value
C26_Witness ==
    /\ call.op = "annotate" /\ call.outcome = "ok"
    /\ Len(call.samples) = 2
    /\ \E r \in 1..Len(coverage_annotated.rows) :
          /\ coverage_annotated.rows[r].stats.amplitude.num > 0
          /\ coverage_annotated.rows[r].stats.variance.kind = "num"
          /\ coverage_annotated.rows[r].stats.mean.num > 0
          /\ coverage_annotated.rows[r].support.has

\* C27: when get_supported_peaks is given the full sample list the Support
\* Table was computed for, its entry for a region is true exactly when the
\* support value of the region is above 0.
C27_MaskAgreesWithSupport ==
    (/\ call.op = "get_supported_peaks" /\ call.outcome = "ok"
     /\ call.samples = support.names) =>
        \A r \in 1..Len(support.rows) :
            mask.vals[r] <=> (support.rows[r].num > 0)

\* the lists that hold the samples of the last call in some order
Reorderings ==
    {l \in OrderLists :
        /\ Len(l) = Len(call.samples)
        /\ \A i \in 1..Len(l) : \E j \in 1..Len(call.samples) : l[i] = call.samples[j]}

\* C28: with every peak file present, get_consensus_sites over the same
\* samples in any other order ends the same way and gives the same
\* consensus set.
C28_OrderIndependent ==
    (/\ call.op = "get_consensus_sites"
     /\ \A i \in 1..Len(call.samples) : peaks_fs[call.samples[i]].has) =>
        \A l \in Reorderings :
            LET fold == ConsensusFold(l, 1, call.region_type, Extension, Unbound) IN
            /\ call.outcome = "ok"
            /\ fold.bound /\ ~fold.raised
            /\ SomeIvs(FilterSites(Merge(fold.ivs))) = sites

\* a build over the three samples in an order other than that of their
\* names, in which peaks of different samples joined
C28_Witness ==
    /\ call.op = "get_consensus_sites" /\ call.outcome = "ok"
    /\ Len(call.samples) = 3
    /\ call.samples # <<"s1", "s2", "s3">>
    /\ Cardinality(Reorderings) = 6
    /\ Len(sites.ivs) >= 1
    /\ Len(FoldedSites) < Len(peaks_fs["s1"].ivs) + 2
    /\ peaks_fs["s2"] # peaks_fs["s3"]

\* C29: an annotate that fails its row-count check leaves
\* self.coverage_annotated as it was before the call, set or unset, and
\* does not write the annotated file.
C29_FailedAnnotateChangesNothing ==
    [][(call'.op = "annotate" /\ call'.outcome = "AssertionError") =>
          /\ coverage_annotated' = coverage_annotated
          /\ annotated_file' = annotated_file]_vars

\* C30: after a completed get_peak_genomic_location every consensus site
\* has a row in region_annotation, with at least one label.
C30_EveryRegionLabelled ==
    (call.op = "get_peak_genomic_location" /\ call.outcome = "ok") =>
        \A i \in 1..Len(sites.ivs) :
            \E r \in 1..Len(region_annotation.rows) :
                /\ region_annotation.rows[r].chrom = sites.ivs[i].chrom
                /\ region_annotation.rows[r].start = sites.ivs[i].start
                /\ region_annotation.rows[r].end = sites.ivs[i].end
                /\ region_annotation.rows[r].genomic_region # <<>>

====
